---------------------------- MODULE Spec2Model ----------------------------
(*
  A model of the Apple Health dashboard: the batch step of process_data.py
  (export.xml -> per-category workouts.csv and aggregated.json) and the query
  handlers of app.py (series, sleep, steps, heart rate, summary statistics,
  personal records, workout details) with the in-memory result cache
  DATA_CACHE.

  Representation of the program's values
    - A date string "YYYY-MM-DD<tail>" is the record [y, m, d, tail]; the
      fields are what the ten-character prefix spells and need not form a
      calendar date ("2024-02-30"), tail is what follows the prefix.  The
      empty string is EmptyStr.
    - A datetime at midnight is the tuple <<y, m, d>>, Python's None is <<>>.
    - A table cell is [k, n]: "" (k = "empty"), a plain number ("num"), a
      number followed by a unit token, "12 km" ("unit"), or text ("bad").
      n is the number in thousandths, and so is every amount summed from
      cells; counts are whole.  The sums are those of decimal arithmetic:
      the error of binary floating point is not modelled.  Values rounded
      to one decimal are kept in tenths and values rounded to two decimals
      in hundredths, a tie going to the even neighbour.
    - The ISO day label "YYYY-MM-DD" produced by strftime is written as the
      number yyyymmdd, whose numeric order is the string's lexicographic order.
*)
EXTENDS Integers, Sequences, FiniteSets, TLC

VARIABLES
    export,       \* export.xml: whether it exists, the Workout and Record elements
                  \* the parser yields, and whether it then raises (malformed)
    tables,       \* processed_data/<category>/workouts.csv: category -> rows
    aggregated,   \* processed_data/<category>/aggregated.json
    signals,      \* processed_data/sleep, steps, heart_rate: the csv and the json
    processed_dir, \* whether the directory processed_data exists
    DATA_CACHE,   \* app.py DATA_CACHE: activity -> formatted series
    today,        \* the wall clock's date, datetime.now().date()
    req,          \* the request last served
    resp,         \* its response
    threads,      \* the series requests in progress, one per server thread
    batch         \* the batch step in progress: where process_data stands

vars == <<export, tables, aggregated, signals, processed_dir, DATA_CACHE, today, req, resp,
          threads, batch>>

(***************************************************************************)
(* Bounds of the model                                                     *)
(***************************************************************************)
\* Workout elements in one export document (series, statistics, details).
MaxRows == 2
\* Workout elements in one export document of the streak and detail-listing
\* specifications.
MaxDays == 4
\* Largest per_page argument of the workout detail listing; pages are asked
\* for up to two past it.
MaxPage == 3
\* Days after the first one on which the clock can stand when a
\* personal-records request is served.
MaxTicks == 1

(***************************************************************************)
(* Calendar (datetime)                                                     *)
(***************************************************************************)
None == <<>>

IsLeap(y) == (y % 4 = 0 /\ y % 100 # 0) \/ y % 400 = 0

DaysInMonth(y, m) ==
    IF m = 2 THEN (IF IsLeap(y) THEN 29 ELSE 28)
    ELSE IF m \in {4, 6, 9, 11} THEN 30 ELSE 31

\* What datetime(y, m, d) accepts.
ValidDate(y, m, d) ==
    /\ y \in 1..9999
    /\ m \in 1..12
    /\ d \in 1..DaysInMonth(y, m)

RECURSIVE DaysBeforeMonth(_, _)
DaysBeforeMonth(y, m) ==
    IF m = 1 THEN 0 ELSE DaysBeforeMonth(y, m - 1) + DaysInMonth(y, m - 1)

\* date.toordinal(): days since 0001-01-01, counted from 1.
Ordinal(dt) ==
    LET y == dt[1] - 1
    IN  y * 365 + (y \div 4) - (y \div 100) + (y \div 400)
          + DaysBeforeMonth(dt[1], dt[2]) + dt[3]

\* (a - b).days
DaysBetween(a, b) == Ordinal(a) - Ordinal(b)

\* datetime comparison a < b.
DtLess(a, b) ==
    \/ a[1] < b[1]
    \/ a[1] = b[1] /\ a[2] < b[2]
    \/ a[1] = b[1] /\ a[2] = b[2] /\ a[3] < b[3]

month_order ==
    <<"January", "February", "March", "April", "May", "June",
      "July", "August", "September", "October", "November", "December">>

\* dt.strftime('%B')
MonthName(dt) == month_order[dt[2]]

\* dt.strftime('%Y-%m-%d'), as the number yyyymmdd.
IsoDay(dt) == dt[1] * 10000 + dt[2] * 100 + dt[3]

(***************************************************************************)
(* Strings and cells                                                       *)
(***************************************************************************)
DateStr(y, m, d, tail) == [y |-> y, m |-> m, d |-> d, tail |-> tail]

EmptyStr == DateStr(0, 0, 0, "")

\* s[:10]
First10(s) == [s EXCEPT !.tail = ""]

\* datetime.strptime(s, '%Y-%m-%d'): the whole string must be a date.
Strptime(s) ==
    IF s.tail = "" /\ ValidDate(s.y, s.m, s.d) THEN <<s.y, s.m, s.d>> ELSE None

\* app.py parse_date
parse_date(date_str) ==
    IF date_str = EmptyStr THEN None ELSE Strptime(First10(date_str))

Cell(k, n) == [k |-> k, n |-> n]
Blank == Cell("empty", 0)
\* The whole number n, the number of h hundredths and the number of t
\* thousandths.
Num(n) == Cell("num", 1000 * n)
Dec(h) == Cell("num", 10 * h)
Milli(t) == Cell("num", t)

\* Python truthiness of a cell read from the table.
Truthy(c) == c.k # "empty"

\* a or b
Or(a, b) == IF Truthy(a) THEN a ELSE b

\* app.py safe_float(value, 0.0): the leading token, commas dropped.
safe_float(c) == IF c.k \in {"num", "unit"} THEN c.n ELSE 0

\* float(c or 0) in process_data.py: the value, or Failed for a ValueError.
Failed == -1
FloatOrZero(c) ==
    IF c.k = "empty" THEN 0 ELSE IF c.k = "num" THEN c.n ELSE Failed

\* round(num / den, 1), in tenths; a tie goes to the even tenth.
RoundDiv1(num, den) ==
    LET q == (10 * num) \div den
        r == (10 * num) % den
    IN  IF 2 * r < den THEN q
        ELSE IF 2 * r > den THEN q + 1
        ELSE IF q % 2 = 0 THEN q ELSE q + 1

\* A name is the sequence of its characters.
UpperCase ==
    <<"A", "B", "C", "D", "E", "F", "G", "H", "I", "J", "K", "L", "M",
      "N", "O", "P", "Q", "R", "S", "T", "U", "V", "W", "X", "Y", "Z">>

LowerCase ==
    <<"a", "b", "c", "d", "e", "f", "g", "h", "i", "j", "k", "l", "m",
      "n", "o", "p", "q", "r", "s", "t", "u", "v", "w", "x", "y", "z">>

\* str.lower()
Lower(name) ==
    [i \in DOMAIN name |->
        IF \E j \in DOMAIN UpperCase : UpperCase[j] = name[i]
        THEN LowerCase[CHOOSE j \in DOMAIN UpperCase : UpperCase[j] = name[i]]
        ELSE name[i]]

\* A mutant of IsIn: kw is looked for at the start of the name only.
StartsWith(kw, name) ==
    Len(kw) <= Len(name) /\ SubSeq(name, 1, Len(kw)) = kw

\* kw in name
IsIn(kw, name) ==
    \E i \in 0..(Len(name) - Len(kw)) : SubSeq(name, i + 1, i + Len(kw)) = kw

(***************************************************************************)
(* Sequences                                                               *)
(***************************************************************************)
RECURSIVE SumSeq(_)
SumSeq(s) == IF s = <<>> THEN 0 ELSE Head(s) + SumSeq(Tail(s))

Range(s) == {s[i] : i \in DOMAIN s}

Min(S) == CHOOSE x \in S : \A y \in S : x <= y

\* sorted(S) of a set of numbers.
RECURSIVE SortedSeq(_)
SortedSeq(S) ==
    IF S = {} THEN <<>> ELSE <<Min(S)>> \o SortedSeq(S \ {Min(S)})

\* All sequences over S of length at most n.
SeqsUpTo(S, n) == UNION {[1..k -> S] : k \in 0..n}


(***************************************************************************)
(* The export document and the tables                                      *)
(***************************************************************************)
\* One Workout element: its activity type with the HKWorkoutActivityType
\* prefix stripped, and the attributes and statistics the aggregation reads.
Workout(type, startDate, duration, statEnergy, totalEnergy, statDistance, totalDistance) ==
    [type |-> type, startDate |-> startDate, duration |-> duration,
     stat_ActiveEnergyBurned_sum |-> statEnergy,
     totalEnergyBurned |-> totalEnergy,
     stat_DistanceWalkingRunning_sum |-> statDistance,
     totalDistance |-> totalDistance]

\* os.listdir(PROCESSED_DIR) lists in no particular order; the scans below
\* take the directories in this one.
CategoryOrder == <<"CoreTraining", "Running">>

special_dirs == {"sleep", "steps", "heart_rate"}

\* The directories of processed_data that are not special, as a sequence.
ListDir(tbls) ==
    SelectSeq(CategoryOrder, LAMBDA c : c \in DOMAIN tbls /\ c \notin special_dirs)

NoTables == [c \in {} |-> <<>>]

(***************************************************************************)
(* process_data.py: the batch step                                         *)
(***************************************************************************)
ZeroStats == [count |-> 0, duration |-> 0, energy |-> 0, distance |-> 0]

\* defaultdict lookup: the accumulator of a bucket, zero when absent.
StatsAt(acc, key) == IF key \in DOMAIN acc THEN acc[key] ELSE ZeroStats

\* acc with the bucket key set to st.
Put(acc, key, st) ==
    [k \in DOMAIN acc \cup {key} |-> IF k = key THEN st ELSE acc[k]]

\* A mutant of BatchRow: the duration overwrites the bucket's sum.
BatchRowOverwrite(acc, row) ==
    LET dt == Strptime(First10(row.startDate))
        key == <<dt[1], MonthName(dt)>>
        st == StatsAt(acc, key)
    IN  IF row.startDate = EmptyStr \/ dt = None THEN acc
        ELSE Put(acc, key, [count |-> st.count + 1,
                            duration |-> safe_float(row.duration),
                            energy |-> st.energy, distance |-> st.distance])

\* process_data.py lines 433-454: one row folded into aggregated_data.  The
\* four accumulators are updated one after the other, and a ValueError
\* leaves the row at the update that raised it.
BatchRow(acc, row) ==
    LET dt == Strptime(First10(row.startDate))
        key == <<dt[1], MonthName(dt)>>
        st == StatsAt(acc, key)
        dur == FloatOrZero(row.duration)
        en == FloatOrZero(Or(row.stat_ActiveEnergyBurned_sum, row.totalEnergyBurned))
        di == FloatOrZero(Or(row.stat_DistanceWalkingRunning_sum, row.totalDistance))
        s1 == [st EXCEPT !.count = @ + 1]
        s2 == [s1 EXCEPT !.duration = @ + dur]
        s3 == [s2 EXCEPT !.energy = @ + en]
        s4 == [s3 EXCEPT !.distance = @ + di]
    IN  IF row.startDate = EmptyStr \/ dt = None THEN acc
        ELSE IF dur = Failed THEN Put(acc, key, s1)
        ELSE IF en = Failed THEN Put(acc, key, s2)
        ELSE IF di = Failed THEN Put(acc, key, s3)
        ELSE Put(acc, key, s4)

RECURSIVE BatchFold(_, _)
BatchFold(rows, acc) ==
    IF rows = <<>> THEN acc ELSE BatchFold(Tail(rows), BatchRow(acc, Head(rows)))

\* [m for m in month_order if m in months]
MonthsIn(months) == SelectSeq(month_order, LAMBDA m : m \in months)

\* process_data.py lines 457-481: aggregated_data as a formatted series.
FormatBatch(acc) ==
    LET years == SortedSeq({k[1] : k \in DOMAIN acc})
        Entry(y) ==
            LET sorted_months == MonthsIn({k[2] : k \in {j \in DOMAIN acc : j[1] = y}})
                Col(f) == [i \in DOMAIN sorted_months |-> acc[<<y, sorted_months[i]>>][f]]
            IN  [year |-> y, labels |-> sorted_months,
                 datasets |-> [duration |-> Col("duration"), energy |-> Col("energy"),
                               distance |-> Col("distance"), count |-> Col("count")]]
    IN  [i \in DOMAIN years |-> Entry(years[i])]

NoAcc == [k \in {} |-> ZeroStats]

\* The aggregated.json of one table.
BatchAggregate(rows) == FormatBatch(BatchFold(rows, NoAcc))

\* The activity types that open a workouts.jsonl in pass 1.
TypesOf(workouts) == {workouts[i].type : i \in DOMAIN workouts} \ {""}

\* The rows pass 2 writes for one activity type, in document order.
RowsOf(workouts, type) == SelectSeq(workouts, LAMBDA w : w.type = type)

\* A mutant of TablesAfter: the records of a run are added to the table the
\* directory has.
TablesAfterAppending(tbls, workouts) ==
    [c \in DOMAIN tbls \cup TypesOf(workouts) |->
        IF c \in TypesOf(workouts)
        THEN (IF c \in DOMAIN tbls THEN tbls[c] ELSE <<>>) \o RowsOf(workouts, c)
        ELSE tbls[c]]

\* The tables after a run: a directory with a workouts.jsonl is rewritten,
\* every other directory is left as it is.
TablesAfter(tbls, workouts) ==
    [c \in DOMAIN tbls \cup TypesOf(workouts) |->
        IF c \in TypesOf(workouts) THEN RowsOf(workouts, c) ELSE tbls[c]]

AggregatedAfter(aggs, workouts) ==
    [c \in DOMAIN aggs \cup TypesOf(workouts) |->
        IF c \in TypesOf(workouts) THEN BatchAggregate(RowsOf(workouts, c)) ELSE aggs[c]]

(***************************************************************************)
(* process_data.py: pass 2, the flattened table of one category            *)
(***************************************************************************)
\* The characters of the keys in the order of their code points.
CodePoints == UpperCase \o <<"_">> \o LowerCase

CodePoint(c) == CHOOSE i \in DOMAIN CodePoints : CodePoints[i] = c

\* a < b for two keys, as Python compares strings.
RECURSIVE KeyLess(_, _)
KeyLess(a, b) ==
    IF b = <<>> THEN FALSE
    ELSE IF a = <<>> THEN TRUE
    ELSE IF Head(a) # Head(b) THEN CodePoint(Head(a)) < CodePoint(Head(b))
    ELSE KeyLess(Tail(a), Tail(b))

\* sorted(S) of a set of keys.
RECURSIVE SortedKeys(_)
SortedKeys(S) ==
    IF S = {} THEN <<>>
    ELSE LET first == CHOOSE a \in S : \A b \in S \ {a} : KeyLess(a, b)
         IN  <<first>> \o SortedKeys(S \ {first})

\* process_data.py line 399
standard_keys ==
    << <<"s", "t", "a", "r", "t", "D", "a", "t", "e">>,
       <<"e", "n", "d", "D", "a", "t", "e">>,
       <<"d", "u", "r", "a", "t", "i", "o", "n">>,
       <<"t", "o", "t", "a", "l", "E", "n", "e", "r", "g", "y", "B", "u", "r", "n", "e", "d">>,
       <<"t", "o", "t", "a", "l", "D", "i", "s", "t", "a", "n", "c", "e">>,
       <<"s", "o", "u", "r", "c", "e", "N", "a", "m", "e">> >>

\* process_data.py lines 389-396: the keys of all records.
AllKeys(records) == UNION {DOMAIN records[i] : i \in DOMAIN records}

\* A mutant of FinalHeaders: every key in sorted order, the standard ones too.
FinalHeadersSorted(all_keys) == SortedKeys(all_keys)

\* process_data.py lines 400-401
FinalHeaders(all_keys) ==
    SelectSeq(standard_keys, LAMBDA k : k \in all_keys)
        \o SortedKeys({k \in all_keys : k \notin Range(standard_keys)})

\* csv.DictWriter.writerow: the record's values in the order of the
\* fieldnames, the empty string for a key the record does not have; a key
\* outside the fieldnames raises ValueError.
WriteRow(final_headers, record) ==
    IF DOMAIN record \subseteq Range(final_headers)
    THEN <<[i \in DOMAIN final_headers |->
              IF final_headers[i] \in DOMAIN record THEN record[final_headers[i]] ELSE ""]>>
    ELSE <<>>

\* process_data.py lines 408-414: one row per record; a record whose
\* writerow raises is passed over.
RECURSIVE WriteRows(_, _)
WriteRows(final_headers, records) ==
    IF records = <<>> THEN <<>>
    ELSE WriteRow(final_headers, Head(records)) \o WriteRows(final_headers, Tail(records))

\* process_data.py lines 388-414: the workouts.csv of the records of one
\* workouts.jsonl.
FlattenedTable(records) ==
    LET final_headers == FinalHeaders(AllKeys(records))
    IN  [final_headers |-> final_headers, rows |-> WriteRows(final_headers, records)]

(***************************************************************************)
(* process_data.py: sleep, steps and heart rate                            *)
(***************************************************************************)
SleepType == "HKCategoryTypeIdentifierSleepAnalysis"
StepType == "HKQuantityTypeIdentifierStepCount"
HeartRateType == "HKQuantityTypeIdentifierHeartRate"

\* One Record element.  minutes is what process_data.py lines 45-49 make of
\* a sleep record's startDate and endDate: the minutes between them, 0 when
\* either does not parse.
Record(type, startDate, value, minutes) ==
    [type |-> type, startDate |-> startDate, value |-> value, minutes |-> minutes]

\* The value attribute of a sleep record is text: the cell ("bad", i) is the
\* i-th of these, spelled letter by letter.  The last is the first phase in
\* capitals.
SleepValues ==
    << <<"H", "K", "C", "a", "t", "e", "g", "o", "r", "y", "V", "a", "l", "u",
       "e", "S", "l", "e", "e", "p", "A", "n", "a", "l", "y", "s", "i", "s",
       "A", "s", "l", "e", "e", "p", "C", "o", "r", "e">>,
       <<"H", "K", "C", "a", "t", "e", "g", "o", "r", "y", "V", "a", "l", "u",
       "e", "S", "l", "e", "e", "p", "A", "n", "a", "l", "y", "s", "i", "s",
       "I", "n", "B", "e", "d">>,
       <<"H", "K", "C", "a", "t", "e", "g", "o", "r", "y", "V", "a", "l", "u",
       "e", "S", "l", "e", "e", "p", "A", "n", "a", "l", "y", "s", "i", "s",
       "A", "w", "a", "k", "e">>,
       <<"H", "K", "C", "a", "t", "e", "g", "o", "r", "y", "V", "a", "l", "u",
       "e", "S", "l", "e", "e", "p", "A", "n", "a", "l", "y", "s", "i", "s",
       "A", "s", "l", "e", "e", "p", "R", "E", "M">>,
       <<"H", "K", "C", "a", "t", "e", "g", "o", "r", "y", "V", "a", "l", "u",
       "e", "S", "l", "e", "e", "p", "A", "n", "a", "l", "y", "s", "i", "s",
       "A", "S", "L", "E", "E", "P">> >>

\* The markers process_sleep_data looks for, lines 82, 84 and 86.
Asleep == <<"A", "s", "l", "e", "e", "p">>

InBed == <<"I", "n", "B", "e", "d">>

Awake == <<"A", "w", "a", "k", "e">>

\* marker in value
Contains(value, marker) ==
    /\ value.k = "bad"
    /\ value.n \in DOMAIN SleepValues
    /\ IsIn(marker, SleepValues[value.n])

\* The rows the three writers put in their csv, in document order.
SignalRows(records, type) ==
    LET own == SelectSeq(records, LAMBDA r : r.type = type)
    IN  [i \in DOMAIN own |->
            [startDate |-> own[i].startDate, value |-> own[i].value,
             duration |-> IF type = SleepType THEN Num(own[i].minutes) ELSE Blank]]

ZeroSleep == [total_sleep_minutes |-> 0, in_bed_minutes |-> 0, awake_minutes |-> 0]

\* process_data.py lines 72-90: a bucket exists once a row with a phase
\* marker was added to it.
SleepRow(acc, row) ==
    LET dt == Strptime(First10(row.startDate))
        key == <<dt[1], MonthName(dt)>>
        st == IF key \in DOMAIN acc THEN acc[key] ELSE ZeroSleep
        duration == FloatOrZero(row.duration)
    IN  IF dt = None \/ row.duration.k # "num" THEN acc
        ELSE IF Contains(row.value, Asleep)
        THEN Put(acc, key, [st EXCEPT !.total_sleep_minutes = @ + duration])
        ELSE IF Contains(row.value, InBed)
        THEN Put(acc, key, [st EXCEPT !.in_bed_minutes = @ + duration])
        ELSE IF Contains(row.value, Awake)
        THEN Put(acc, key, [st EXCEPT !.awake_minutes = @ + duration])
        ELSE acc

\* process_data.py lines 165-177: int(float(value)) raises on anything but a number.
StepsRow(acc, row) ==
    LET dt == Strptime(First10(row.startDate))
        key == <<dt[1], MonthName(dt)>>
        st == IF key \in DOMAIN acc THEN acc[key] ELSE [total_steps |-> 0, count |-> 0]
        \* int(float(value)): the fraction is cut off
        steps == IF row.value.n < 0 THEN -1000 * ((-row.value.n) \div 1000)
                 ELSE 1000 * (row.value.n \div 1000)
    IN  IF dt = None \/ row.value.k # "num" THEN acc
        ELSE Put(acc, key, [total_steps |-> st.total_steps + steps,
                            count |-> st.count + 1])

\* float('inf') is the empty tuple, a reading hr the tuple <<hr>>.
MinOf(m, hr) == IF m = <<>> THEN <<hr>> ELSE IF hr < m[1] THEN <<hr>> ELSE m

MaxOf(a, b) == IF a < b THEN b ELSE a

\* process_data.py lines 251-265: every reading that is a number is folded.
HeartRateRow(acc, row) ==
    LET dt == Strptime(First10(row.startDate))
        key == <<dt[1], MonthName(dt)>>
        st == IF key \in DOMAIN acc THEN acc[key]
              ELSE [sum |-> 0, count |-> 0, min |-> <<>>, max |-> 0]
        hr == row.value.n
    IN  IF dt = None \/ row.value.k # "num" THEN acc
        ELSE Put(acc, key, [sum |-> st.sum + hr, count |-> st.count + 1,
                            min |-> MinOf(st.min, hr), max |-> MaxOf(st.max, hr)])

RECURSIVE SleepFold(_, _)
SleepFold(rows, acc) ==
    IF rows = <<>> THEN acc ELSE SleepFold(Tail(rows), SleepRow(acc, Head(rows)))

RECURSIVE StepsFold(_, _)
StepsFold(rows, acc) ==
    IF rows = <<>> THEN acc ELSE StepsFold(Tail(rows), StepsRow(acc, Head(rows)))

RECURSIVE HeartRateFold(_, _)
HeartRateFold(rows, acc) ==
    IF rows = <<>> THEN acc ELSE HeartRateFold(Tail(rows), HeartRateRow(acc, Head(rows)))

RECURSIVE GCD(_, _)
GCD(a, b) == IF b = 0 THEN a ELSE GCD(b, a % b)

\* The quotient num / den for den > 0, kept as a fraction in lowest terms.
Quotient(num, den) ==
    LET g == GCD(IF num < 0 THEN -num ELSE num, den)
    IN  [num |-> num \div g, den |-> den \div g]

\* The formatted series of one special category: per year the months in
\* calendar order and one array per dataset.
FormatSignal(acc, Datasets(_, _)) ==
    LET years == SortedSeq({k[1] : k \in DOMAIN acc})
        Entry(y) ==
            LET sorted_months == MonthsIn({k[2] : k \in {j \in DOMAIN acc : j[1] = y}})
            IN  [year |-> y, labels |-> sorted_months, datasets |-> Datasets(y, sorted_months)]
    IN  [i \in DOMAIN years |-> Entry(years[i])]

\* process_data.py lines 93-113: hours in thousandths.  Sleep lasts whole
\* hours in the model, so minutes / 60 is exact.
FormatSleep(acc) ==
    FormatSignal(acc, LAMBDA y, ms :
        [sleep_hours |-> [i \in DOMAIN ms |-> acc[<<y, ms[i]>>].total_sleep_minutes \div 60],
         in_bed_hours |-> [i \in DOMAIN ms |-> acc[<<y, ms[i]>>].in_bed_minutes \div 60]])

\* process_data.py lines 180-198
FormatSteps(acc) ==
    FormatSignal(acc, LAMBDA y, ms :
        [total_steps |-> [i \in DOMAIN ms |-> acc[<<y, ms[i]>>].total_steps]])

\* process_data.py lines 268-292: the average in thousandths, as a fraction.
FormatHeartRate(acc) ==
    FormatSignal(acc, LAMBDA y, ms :
        [avg_heart_rate |-> [i \in DOMAIN ms |->
            Quotient(acc[<<y, ms[i]>>].sum, acc[<<y, ms[i]>>].count)],
         min_heart_rate |-> [i \in DOMAIN ms |-> acc[<<y, ms[i]>>].min[1]],
         max_heart_rate |-> [i \in DOMAIN ms |-> acc[<<y, ms[i]>>].max]])

NoSignals == [d \in {} |-> <<>>]

\* process_sleep_data, process_steps_data and process_heart_rate_data: each
\* rewrites its csv from the document and its json from the csv.
SignalsAfter(records) ==
    LET sleep == SignalRows(records, SleepType)
        steps == SignalRows(records, StepType)
        heart_rate == SignalRows(records, HeartRateType)
    IN  [d \in special_dirs |->
            IF d = "sleep"
            THEN [csv |-> sleep, json |-> FormatSleep(SleepFold(sleep, NoAcc))]
            ELSE IF d = "steps"
            THEN [csv |-> steps, json |-> FormatSteps(StepsFold(steps, NoAcc))]
            ELSE [csv |-> heart_rate,
                  json |-> FormatHeartRate(HeartRateFold(heart_rate, NoAcc))]]

(***************************************************************************)
(* app.py: the series query, /api/data                                     *)
(***************************************************************************)
\* app.py line 50
strength_keywords ==
    { <<"s", "t", "r", "e", "n", "g", "t", "h">>,
      <<"c", "o", "r", "e">>,
      <<"b", "o", "d", "y", "w", "e", "i", "g", "h", "t">>,
      <<"y", "o", "g", "a">>,
      <<"m", "i", "n", "d", "a", "n", "d", "b", "o", "d", "y">>,
      <<"r", "e", "s", "i", "s", "t", "a", "n", "c", "e">> }

\* app.py lines 53-57: the loop over the keywords taken in the order `order`.
RECURSIVE CategorizeInOrder(_, _)
CategorizeInOrder(lower_name, order) ==
    IF order = <<>> THEN "Cardio"
    ELSE IF IsIn(Head(order), lower_name) THEN "Strength Training"
    ELSE CategorizeInOrder(lower_name, Tail(order))

\* The orders in which a set can be iterated.
RECURSIVE IterationOrders(_)
IterationOrders(S) ==
    IF S = {} THEN {<<>>}
    ELSE UNION {{<<x>> \o o : o \in IterationOrders(S \ {x})} : x \in S}

\* The orders in which the loop of categorize_activity can take the keywords.
KeywordOrders == IterationOrders(strength_keywords)

\* app.py categorize_activity of a name, the keywords iterated in `order`.
CategorizeActivity(activity_name, order) ==
    IF activity_name = <<>> THEN "Cardio"
    ELSE CategorizeInOrder(Lower(activity_name), order)

\* The names of the categories of the model, spelled.
Spelled(name) ==
    CASE name = "CoreTraining" -> <<"C", "o", "r", "e", "T", "r", "a", "i", "n", "i", "n", "g">>
      [] name = "Running" -> <<"R", "u", "n", "n", "i", "n", "g">>
      [] name = "" -> <<>>

\* app.py categorize_activity of the name of a category, the keywords
\* iterated in one of the orders.
categorize_activity(activity_name) ==
    CategorizeActivity(Spelled(activity_name), CHOOSE o \in KeywordOrders : TRUE)

\* A mutant of InRange: the end of the range is not looked at.
InRangeStartOnly(dt, start_date, end_date) ==
    ~(start_date # None /\ DtLess(dt, start_date))

\* A mutant of InRange: the bounds themselves are left out.
InRangeExclusive(dt, start_date, end_date) ==
    /\ ~(start_date # None /\ ~DtLess(start_date, dt))
    /\ ~(end_date # None /\ ~DtLess(dt, end_date))

\* The date filter of a scan: the row's datetime dt against the parsed bounds.
InRange(dt, start_date, end_date) ==
    /\ ~(start_date # None /\ DtLess(dt, start_date))
    /\ ~(end_date # None /\ DtLess(end_date, dt))

\* The energy and the distance a query reads from a row.
RowEnergy(row) == safe_float(Or(row.stat_ActiveEnergyBurned_sum, row.totalEnergyBurned))
RowDistance(row) == safe_float(Or(row.stat_DistanceWalkingRunning_sum, row.totalDistance))

\* The label of a row: the ISO day (daily) or the month name.
LabelOf(dt, granularity) == IF granularity = "daily" THEN IsoDay(dt) ELSE MonthName(dt)

\* app.py lines 254-274: one row of table act folded into all_data.
DataRow(acc, act, row, start_date, end_date, granularity, group_by_category) ==
    LET dt == parse_date(row.startDate)
        bucket == IF group_by_category THEN categorize_activity(act) ELSE act
        key == <<dt[1], LabelOf(dt, granularity), bucket>>
        st == StatsAt(acc, key)
    IN  IF dt = None THEN acc
        ELSE IF ~InRange(dt, start_date, end_date) THEN acc
        ELSE Put(acc, key, [count |-> st.count + 1,
                            duration |-> st.duration + safe_float(row.duration),
                            energy |-> st.energy + RowEnergy(row),
                            distance |-> st.distance + RowDistance(row)])

RECURSIVE DataFoldRows(_, _, _, _, _, _, _)
DataFoldRows(acc, act, rows, sd, ed, g, grp) ==
    IF rows = <<>> THEN acc
    ELSE DataFoldRows(DataRow(acc, act, Head(rows), sd, ed, g, grp),
                      act, Tail(rows), sd, ed, g, grp)

\* app.py lines 248-274: the tables of activities_to_process, one after the other.
RECURSIVE DataFold(_, _, _, _, _, _, _)
DataFold(acc, tbls, acts, sd, ed, g, grp) ==
    IF acts = <<>> THEN acc
    ELSE LET act == Head(acts)
             next == IF act \in DOMAIN tbls
                     THEN DataFoldRows(acc, act, tbls[act], sd, ed, g, grp)
                     ELSE acc
         IN  DataFold(next, tbls, Tail(acts), sd, ed, g, grp)

\* round(x, 1), in tenths, of x thousandths.
Round1(x) == RoundDiv1(x, 1000)

\* A mutant of SortedLabels: the labels in the order opposite to the code's.
SortedLabelsReversed(labels, granularity) ==
    LET s == IF granularity = "daily" THEN SortedSeq(labels) ELSE MonthsIn(labels)
    IN  [i \in DOMAIN s |-> s[Len(s) + 1 - i]]

\* app.py line 283: the labels of one year in output order.
SortedLabels(labels, granularity) ==
    IF granularity = "daily" THEN SortedSeq(labels) ELSE MonthsIn(labels)

\* A mutant of SeriesTotals: each bucket's sum is rounded to one decimal
\* before it is added.
SeriesTotalsOfRounded(acc, y, l, found_buckets) ==
    LET bs == CHOOSE q \in [1..Cardinality(found_buckets) -> found_buckets] :
                  Range(q) = found_buckets
        At(b) == LET st == StatsAt(acc, <<y, l, b>>) IN [st EXCEPT !.count = 1000 * @]
    IN  [f \in {"count", "duration", "energy", "distance"} |->
            SumSeq([i \in DOMAIN bs |-> 100 * Round1(At(bs[i])[f])])]

\* app.py lines 310-316: totals[m] of one label, the sum of the buckets'
\* unrounded sums; the count in thousandths like the amounts.
SeriesTotals(acc, y, l, found_buckets) ==
    LET bs == CHOOSE q \in [1..Cardinality(found_buckets) -> found_buckets] :
                  Range(q) = found_buckets
        At(b) == LET st == StatsAt(acc, <<y, l, b>>) IN [st EXCEPT !.count = 1000 * @]
    IN  [f \in {"count", "duration", "energy", "distance"} |->
            SumSeq([i \in DOMAIN bs |-> At(bs[i])[f]])]

\* app.py lines 276-344: all_data as the formatted series.
FormatSeries(acc, activity, granularity, group_by_category) ==
    LET years == SortedSeq({k[1] : k \in DOMAIN acc})
        metrics == <<"count", "duration", "energy", "distance">>
        Entry(y) ==
            LET keys == {k \in DOMAIN acc : k[1] = y}
                sorted_labels == SortedLabels({k[2] : k \in keys}, granularity)
                found_buckets == {k[3] : k \in keys}
                \* the count in thousandths, like the amounts
                Scaled(st) == [st EXCEPT !.count = 1000 * @]
                At(l, b) == Scaled(StatsAt(acc, <<y, l, b>>))
                Avg(st, f) == IF st.count > 0 THEN RoundDiv1(st[f], st.count) ELSE 0
                Totals(l) == SeriesTotals(acc, y, l, found_buckets)
                Grouped(f) ==
                    [b \in found_buckets \cup {"Total"} |->
                        [i \in DOMAIN sorted_labels |->
                            IF b = "Total" THEN Round1(Totals(sorted_labels[i])[f])
                            ELSE Round1(At(sorted_labels[i], b)[f])]]
                GroupedAvg(f) ==
                    [b \in found_buckets \cup {"Total"} |->
                        [i \in DOMAIN sorted_labels |->
                            IF b = "Total" THEN Avg(Totals(sorted_labels[i]), f)
                            ELSE Avg(At(sorted_labels[i], b), f)]]
                Single(f) ==
                    [i \in DOMAIN sorted_labels |-> Round1(At(sorted_labels[i], activity)[f])]
                SingleAvg(f) ==
                    [i \in DOMAIN sorted_labels |-> Avg(At(sorted_labels[i], activity), f)]
            IN  [year |-> y, labels |-> sorted_labels,
                 datasets |->
                    IF activity = "Total" \/ group_by_category
                    THEN [count |-> Grouped("count"), duration |-> Grouped("duration"),
                          energy |-> Grouped("energy"), distance |-> Grouped("distance"),
                          avg_duration |-> GroupedAvg("duration"),
                          avg_energy |-> GroupedAvg("energy")]
                    ELSE [count |-> Single("count"), duration |-> Single("duration"),
                          energy |-> Single("energy"), distance |-> Single("distance"),
                          avg_duration |-> SingleAvg("duration"),
                          avg_energy |-> SingleAvg("energy")]]
    IN  [i \in DOMAIN years |-> Entry(years[i])]

NoBuckets == [k \in {} |-> ZeroStats]

\* app.py lines 240-246
ActivitiesToProcess(tbls, activity) ==
    IF activity = "Total" THEN ListDir(tbls) ELSE <<activity>>

\* The series computed from the tables (app.py lines 231-344).
ComputeSeries(tbls, activity, start_date_str, end_date_str, granularity, group_by_category) ==
    FormatSeries(
        DataFold(NoBuckets, tbls, ActivitiesToProcess(tbls, activity),
                 parse_date(start_date_str), parse_date(end_date_str),
                 granularity, group_by_category),
        activity, granularity, group_by_category)

\* A mutant of CacheEligible: only the grouping and the granularity are looked at.
CacheEligibleIgnoringDates(start_date_str, end_date_str, granularity, group_by_category) ==
    ~(granularity # "monthly" \/ group_by_category)

\* app.py lines 228 and 346: the requests the cache serves and stores.
CacheEligible(start_date_str, end_date_str, granularity, group_by_category) ==
    ~(start_date_str # EmptyStr \/ end_date_str # EmptyStr
        \/ granularity # "monthly" \/ group_by_category)

\* A mutant of CacheHit: the cache is never looked up.
CacheHitNever(cache, activity, start_date_str, end_date_str, granularity, group_by_category) ==
    FALSE

\* app.py line 228: the request is served from the cache.
CacheHit(cache, activity, start_date_str, end_date_str, granularity, group_by_category) ==
    /\ CacheEligible(start_date_str, end_date_str, granularity, group_by_category)
    /\ activity \in DOMAIN cache

(***************************************************************************)
(* app.py: summary statistics, /api/statistics                             *)
(***************************************************************************)
\* The rows of every table that is not special, in scan order, each with the
\* name of its directory.
RECURSIVE ScanAll(_, _)
ScanAll(tbls, acts) ==
    IF acts = <<>> THEN <<>>
    ELSE [i \in DOMAIN tbls[Head(acts)] |->
              [activity |-> Head(acts), row |-> tbls[Head(acts)][i]]]
         \o ScanAll(tbls, Tail(acts))

\* app.py lines 432-445: a bound of /api/statistics is parsed whole, not cut.
StatisticsBound(date_str) ==
    IF date_str = EmptyStr THEN None ELSE Strptime(date_str)

\* The scanned rows a handler keeps: a parseable date inside the bounds.
Kept(scan, start_date, end_date) ==
    SelectSeq(scan, LAMBDA e :
        /\ parse_date(e.row.startDate) # None
        /\ InRange(parse_date(e.row.startDate), start_date, end_date))

\* round(num / den, 2), in hundredths; a tie goes to the even hundredth.
RoundDiv2(num, den) ==
    LET q == (100 * num) \div den
        r == (100 * num) % den
    IN  IF 2 * r < den THEN q
        ELSE IF 2 * r > den THEN q + 1
        ELSE IF q % 2 = 0 THEN q ELSE q + 1

\* The text a handler returns for a string that is no date.
Text(t) == DateStr(0, 0, 0, t)

\* app.py get_statistics.  Every number is rounded to two decimals at the
\* end (lines 520-523): the amounts and the averages are in hundredths.
\* 30.44 days a month: total / (days / 30.44) = 3044 * total / (100 * days).
GetStatisticsResult(exists, tbls, start_date_str, end_date_str) ==
    LET start_date == StatisticsBound(start_date_str)
        end_date == StatisticsBound(end_date_str)
        kept == IF exists THEN Kept(ScanAll(tbls, ListDir(tbls)), start_date, end_date)
                ELSE <<>>
        n == Len(kept)
        ords == {Ordinal(parse_date(kept[i].row.startDate)) : i \in DOMAIN kept}
        total_days == (CHOOSE x \in ords : \A o \in ords : o <= x) - Min(ords) + 1
        duration == SumSeq([i \in DOMAIN kept |-> safe_float(kept[i].row.duration)])
    IN  [total_workouts |-> n,
         total_duration_minutes |-> RoundDiv2(duration, 1000),
         total_energy_burned |->
            RoundDiv2(SumSeq([i \in DOMAIN kept |-> RowEnergy(kept[i].row)]), 1000),
         total_distance |->
            RoundDiv2(SumSeq([i \in DOMAIN kept |-> RowDistance(kept[i].row)]), 1000),
         avg_workouts_per_week |-> IF n > 0 THEN RoundDiv2(7 * n, total_days) ELSE 0,
         avg_workouts_per_month |-> IF n > 0 THEN RoundDiv2(3044 * n, 100 * total_days) ELSE 0,
         avg_duration_per_workout |-> IF n > 0 THEN RoundDiv2(duration, 1000 * n) ELSE 0,
         date_range |->
            [start |-> IF start_date_str # EmptyStr THEN start_date_str ELSE Text("All time"),
             end |-> IF end_date_str # EmptyStr THEN end_date_str ELSE Text("Present")]]

(***************************************************************************)
(* app.py: personal records and streaks, /api/personal_records             *)
(***************************************************************************)
\* app.py lines 576-582: the record is replaced by a workout longer than the
\* duration the record holds, which is the duration of the workout that set
\* it rounded to two decimals (hundredths).
RECURSIVE LongestWorkout(_, _)
LongestWorkout(kept, best) ==
    IF kept = <<>> THEN best
    ELSE LET e == Head(kept)
             duration == safe_float(e.row.duration)
         IN  LongestWorkout(Tail(kept),
                 IF duration > 10 * best.duration
                 THEN [duration |-> RoundDiv2(duration, 1000), activity |-> e.activity,
                       date |-> First10(e.row.startDate)]
                 ELSE best)

\* The month keys "<month> <year>" of the kept rows, in scan order.
MonthKeys(kept) ==
    [i \in DOMAIN kept |->
        LET dt == parse_date(kept[i].row.startDate)
        IN  [month |-> MonthName(dt), year |-> dt[1]]]

\* app.py lines 591-598: max() over monthly_counts keeps the first of the
\* months with the largest count, in the order the months were first seen.
MostActiveMonth(kept) ==
    LET keys == MonthKeys(kept)
        Count(k) == Cardinality({i \in DOMAIN keys : keys[i] = k})
        FirstSeen(k) == Min({i \in DOMAIN keys : keys[i] = k})
        best == CHOOSE k \in Range(keys) :
                    \A j \in Range(keys) :
                        \/ Count(j) < Count(k)
                        \/ Count(j) = Count(k) /\ FirstSeen(k) <= FirstSeen(j)
    IN  IF keys = <<>> THEN [count |-> 0, month |-> "", year |-> 0]
        ELSE [count |-> Count(best), month |-> best.month, year |-> best.year]

\* sorted(set(global_workouts)) parsed: the workout days in ascending order.
RECURSIVE SortDates(_)
SortDates(S) ==
    IF S = {} THEN <<>>
    ELSE LET first == CHOOSE a \in S : \A b \in S : IsoDay(a) <= IsoDay(b)
         IN  <<first>> \o SortDates(S \ {first})

\* A mutant of LongestStreakFrom: the run still open when the loop ends is
\* not compared with the longest one.
RECURSIVE LongestStreakNoFinalMax(_, _, _, _)
LongestStreakNoFinalMax(workout_dates, i, longest_streak, temp_streak) ==
    IF i > Len(workout_dates) - 1
    THEN longest_streak
    ELSE IF DaysBetween(workout_dates[i + 1], workout_dates[i]) = 1
         THEN LongestStreakNoFinalMax(workout_dates, i + 1, longest_streak, temp_streak + 1)
         ELSE LongestStreakNoFinalMax(workout_dates, i + 1,
                  IF longest_streak > temp_streak THEN longest_streak ELSE temp_streak, 1)

\* app.py lines 608-621: the loop over consecutive pairs from index i on.
RECURSIVE LongestStreakFrom(_, _, _, _)
LongestStreakFrom(workout_dates, i, longest_streak, temp_streak) ==
    IF i > Len(workout_dates) - 1
    THEN (IF longest_streak > temp_streak THEN longest_streak ELSE temp_streak)
    ELSE IF DaysBetween(workout_dates[i + 1], workout_dates[i]) = 1
         THEN LongestStreakFrom(workout_dates, i + 1, longest_streak, temp_streak + 1)
         ELSE LongestStreakFrom(workout_dates, i + 1,
                  IF longest_streak > temp_streak THEN longest_streak ELSE temp_streak, 1)

\* app.py lines 632-637: the loop backwards from index i.
RECURSIVE TrailingRun(_, _, _)
TrailingRun(workout_dates, i, current_streak) ==
    IF i < 1 THEN current_streak
    ELSE IF DaysBetween(workout_dates[i + 1], workout_dates[i]) = 1
         THEN TrailingRun(workout_dates, i - 1, current_streak + 1)
         ELSE current_streak

\* app.py lines 625-638
CurrentStreak(workout_dates, now) ==
    LET last_workout == workout_dates[Len(workout_dates)]
        days_since == DaysBetween(now, last_workout)
    IN  IF days_since <= 1
        THEN TrailingRun(workout_dates, Len(workout_dates) - 1, 1)
        ELSE 0

\* A mutant of GlobalWorkouts: the date filter applies to the streak dates too.
GlobalWorkoutsFiltered(scan, start_date, end_date) ==
    {parse_date(e.row.startDate) : e \in Range(Kept(scan, start_date, end_date))}

\* app.py lines 566-570: the days of every row with a parseable date; the
\* date filter comes after the append.
GlobalWorkouts(scan, start_date, end_date) ==
    {parse_date(e.row.startDate) : e \in Range(scan)} \ {None}

\* app.py get_personal_records
GetPersonalRecordsResult(exists, tbls, start_date_str, end_date_str, now) ==
    LET start_date == parse_date(start_date_str)
        end_date == parse_date(end_date_str)
        scan == IF exists THEN ScanAll(tbls, ListDir(tbls)) ELSE <<>>
        kept == Kept(scan, start_date, end_date)
        workout_dates == SortDates(GlobalWorkouts(scan, start_date, end_date))
    IN  [longest_workout |->
            LongestWorkout(kept, [duration |-> 0, activity |-> "", date |-> EmptyStr]),
         most_active_month |-> MostActiveMonth(kept),
         current_streak |->
            IF workout_dates # <<>> THEN CurrentStreak(workout_dates, now) ELSE 0,
         longest_streak |->
            IF workout_dates # <<>> THEN LongestStreakFrom(workout_dates, 1, 0, 1) ELSE 0,
         streak_type |-> "Workout"]

(***************************************************************************)
(* app.py: the workout detail listing, /api/workout_details                *)
(***************************************************************************)
\* The tails the model's date strings end in, in lexicographic order.
TailOrder == <<"", " 08:00:00 +0000", " 18:30:00 +0000", "T00:00:00">>

TailRank(t) == CHOOSE i \in DOMAIN TailOrder : TailOrder[i] = t

\* String comparison a < b of two date strings with a ten-digit prefix.
StrLess(a, b) ==
    \/ DtLess(<<a.y, a.m, a.d>>, <<b.y, b.m, b.d>>)
    \/ <<a.y, a.m, a.d>> = <<b.y, b.m, b.d>> /\ TailRank(a.tail) < TailRank(b.tail)

\* x placed after the last element whose startDate is not below its own.
InsertDesc(sorted, x) ==
    LET n == Cardinality({i \in DOMAIN sorted : ~StrLess(sorted[i].startDate, x.startDate)})
    IN  SubSeq(sorted, 1, n) \o <<x>> \o SubSeq(sorted, n + 1, Len(sorted))

\* list.sort(key=startDate, reverse=True): descending, equal keys in the
\* order they had.
RECURSIVE SortDesc(_, _)
SortDesc(items, sorted) ==
    IF items = <<>> THEN sorted
    ELSE SortDesc(Tail(items), InsertDesc(sorted, Head(items)))

\* app.py lines 678-685: the listed form of a kept row, its amounts rounded
\* to two decimals (hundredths).
DetailOf(e) ==
    [activity |-> e.activity, startDate |-> e.row.startDate,
     duration |-> RoundDiv2(safe_float(e.row.duration), 1000),
     energy |-> RoundDiv2(RowEnergy(e.row), 1000),
     distance |-> RoundDiv2(RowDistance(e.row), 1000)]

\* lst[start:end] for 0 <= start <= end.
Slice(lst, start, end) ==
    SubSeq(lst, start + 1, IF end < Len(lst) THEN end ELSE Len(lst))

\* A mutant of TotalPages: floor division.
TotalPagesFloor(n, per_page) == n \div per_page

\* app.py line 702
TotalPages(n, per_page) == (n + per_page - 1) \div per_page

\* A mutant of PageOf: the page starts one item late.
PageOfShifted(all_workouts, page, per_page) ==
    Slice(all_workouts, (page - 1) * per_page + 1, (page - 1) * per_page + 1 + per_page)

\* app.py lines 693-695
PageOf(all_workouts, page, per_page) ==
    Slice(all_workouts, (page - 1) * per_page, (page - 1) * per_page + per_page)

\* app.py lines 659-690: the matching workouts, most recent first.
AllWorkouts(tbls, activity_filter, start_date_str, end_date_str) ==
    LET acts == SelectSeq(ListDir(tbls),
                          LAMBDA a : activity_filter = "" \/ a = activity_filter)
        kept == Kept(ScanAll(tbls, acts), parse_date(start_date_str), parse_date(end_date_str))
    IN  SortDesc([i \in DOMAIN kept |-> DetailOf(kept[i])], <<>>)

\* What a handler that raised returns: the framework's error response.
ServerError == [error |-> 500]

\* app.py get_workout_details, page >= 1 and per_page >= 1.  os.listdir
\* raises when processed_data does not exist.
GetWorkoutDetailsResult(exists, tbls, page, per_page, activity_filter, start_date_str, end_date_str) ==
    LET all_workouts == AllWorkouts(tbls, activity_filter, start_date_str, end_date_str)
    IN  IF ~exists THEN ServerError
        ELSE [data |-> PageOf(all_workouts, page, per_page),
              total |-> Len(all_workouts),
              page |-> page,
              per_page |-> per_page,
              total_pages |-> TotalPages(Len(all_workouts), per_page)]

(***************************************************************************)
(* app.py: the sleep, steps and heart-rate queries                         *)
(***************************************************************************)
\* app.py lines 82-100: one row added to all_data[year][label].
MetricRow(acc, row, start_date, end_date, granularity) ==
    LET dt == parse_date(row.startDate)
        key == <<dt[1], LabelOf(dt, granularity)>>
    IN  IF dt = None THEN acc
        ELSE IF ~InRange(dt, start_date, end_date) THEN acc
        ELSE Put(acc, key, (IF key \in DOMAIN acc THEN acc[key] ELSE 0) + safe_float(row.value))

RECURSIVE MetricFold(_, _, _, _, _)
MetricFold(acc, rows, start_date, end_date, granularity) ==
    IF rows = <<>> THEN acc
    ELSE MetricFold(MetricRow(acc, Head(rows), start_date, end_date, granularity),
                    Tail(rows), start_date, end_date, granularity)

\* app.py aggregate_metric_by_date over the rows of an existing csv, the
\* date column startDate and the value column value.
aggregate_metric_by_date(rows, start_date_str, end_date_str, dataset_name, granularity) ==
    LET all_data == MetricFold(NoAcc, rows, parse_date(start_date_str),
                               parse_date(end_date_str), granularity)
        years == SortedSeq({k[1] : k \in DOMAIN all_data})
        Entry(y) ==
            LET sorted_labels ==
                    SortedLabels({k[2] : k \in {j \in DOMAIN all_data : j[1] = y}}, granularity)
            IN  [year |-> y, labels |-> sorted_labels,
                 datasets |-> [n \in {dataset_name} |->
                                  [i \in DOMAIN sorted_labels |-> all_data[<<y, sorted_labels[i]>>]]]]
    IN  [i \in DOMAIN years |-> Entry(years[i])]

\* app.py lines 140-155: the positive readings of a month, in table order.
HeartRateVals(rows, start_date, end_date, y, month) ==
    LET kept == SelectSeq(rows, LAMBDA row :
                    LET dt == parse_date(row.startDate)
                    IN  /\ dt # None
                        /\ InRange(dt, start_date, end_date)
                        /\ dt[1] = y
                        /\ MonthName(dt) = month
                        /\ safe_float(row.value) > 0)
    IN  [i \in DOMAIN kept |-> safe_float(kept[i].value)]

RECURSIVE MaxSeq(_)
MaxSeq(s) == IF Len(s) = 1 THEN s[1] ELSE MaxOf(Head(s), MaxSeq(Tail(s)))

\* app.py aggregate_heart_rate_by_date: avg_heart_rate in tenths,
\* max_heart_rate in thousandths as the reading is.
aggregate_heart_rate_by_date(rows, start_date_str, end_date_str) ==
    LET start_date == parse_date(start_date_str)
        end_date == parse_date(end_date_str)
        dts == {parse_date(rows[i].startDate) : i \in DOMAIN rows} \ {None}
        keys == {k \in {<<dt[1], MonthName(dt)>> : dt \in dts} :
                    HeartRateVals(rows, start_date, end_date, k[1], k[2]) # <<>>}
        years == SortedSeq({k[1] : k \in keys})
        Entry(y) ==
            LET sorted_months == MonthsIn({k[2] : k \in {j \in keys : j[1] = y}})
                Vals(m) == HeartRateVals(rows, start_date, end_date, y, m)
            IN  [year |-> y, labels |-> sorted_months,
                 datasets |->
                    [avg_heart_rate |-> [i \in DOMAIN sorted_months |->
                        RoundDiv1(SumSeq(Vals(sorted_months[i])), 1000 * Len(Vals(sorted_months[i])))],
                     max_heart_rate |-> [i \in DOMAIN sorted_months |->
                        MaxSeq(Vals(sorted_months[i]))]]]
    IN  [i \in DOMAIN years |-> Entry(years[i])]

\* app.py get_sleep_data
GetSleepDataResult(sigs, start_date_str, end_date_str) ==
    IF "sleep" \notin DOMAIN sigs THEN <<>>
    ELSE IF ~(start_date_str # EmptyStr \/ end_date_str # EmptyStr) THEN sigs["sleep"].json
    ELSE aggregate_metric_by_date(sigs["sleep"].csv, start_date_str, end_date_str,
                                  "sleep_hours", "monthly")

\* app.py get_steps_data
GetStepsDataResult(sigs, start_date_str, end_date_str, granularity) ==
    IF "steps" \in DOMAIN sigs
          /\ (granularity = "daily" \/ start_date_str # EmptyStr \/ end_date_str # EmptyStr)
    THEN aggregate_metric_by_date(sigs["steps"].csv, start_date_str, end_date_str,
                                  "total_steps", granularity)
    ELSE IF "steps" \notin DOMAIN sigs THEN <<>>
    ELSE sigs["steps"].json

\* app.py get_heart_rate_data
GetHeartRateDataResult(sigs, start_date_str, end_date_str) ==
    IF "heart_rate" \notin DOMAIN sigs THEN <<>>
    ELSE IF ~(start_date_str # EmptyStr \/ end_date_str # EmptyStr)
    THEN sigs["heart_rate"].json
    ELSE aggregate_heart_rate_by_date(sigs["heart_rate"].csv, start_date_str, end_date_str)

(***************************************************************************)
(* Inputs                                                                  *)
(***************************************************************************)
Morning == " 08:00:00 +0000"
Evening == " 18:30:00 +0000"

\* The workouts the documents of the series specification are made of: the
\* second lasts 20.26 minutes, the last two are a row without a start date
\* and a row whose duration carries a unit.
SeriesWorkouts ==
    { Workout("Running", DateStr(2024, 1, 1, Morning), Num(10), Num(100), Blank, Blank, Num(5)),
      Workout("Running", DateStr(2024, 1, 2, Morning), Dec(2026), Num(50), Num(70), Num(3), Num(4)),
      Workout("Running", DateStr(2023, 12, 31, Evening), Num(30), Blank, Blank, Blank, Blank),
      Workout("CoreTraining", DateStr(2024, 1, 1, Evening), Num(45), Blank, Num(200), Blank, Blank),
      Workout("CoreTraining", DateStr(2024, 2, 1, Morning), Num(15), Num(60), Blank, Blank, Blank),
      Workout("Running", EmptyStr, Num(10), Num(100), Blank, Blank, Num(5)),
      Workout("Running", DateStr(2024, 1, 1, Evening), Cell("unit", 12000), Num(40), Blank, Blank, Num(2)) }

\* The workouts of the streak specification: days around a year's end, a
\* gap, and the day after the first day of the clock.
StreakWorkouts ==
    { Workout("Running", DateStr(2023, 12, 31, Morning), Num(30), Blank, Blank, Blank, Blank),
      Workout("CoreTraining", DateStr(2024, 1, 1, Evening), Num(45), Blank, Blank, Blank, Blank),
      Workout("Running", DateStr(2024, 1, 2, Morning), Num(45), Blank, Blank, Blank, Blank),
      Workout("Running", DateStr(2024, 1, 3, Morning), Num(20), Blank, Blank, Blank, Blank),
      Workout("CoreTraining", DateStr(2024, 1, 5, Morning), Num(15), Blank, Blank, Blank, Blank) }

\* The workouts of the detail-listing specification.
DetailWorkouts ==
    { Workout("Running", DateStr(2024, 1, 1, Morning), Num(10), Num(100), Blank, Blank, Num(5)),
      Workout("Running", DateStr(2024, 1, 2, Morning), Num(20), Num(50), Num(70), Num(3), Num(4)),
      Workout("CoreTraining", DateStr(2024, 1, 1, Morning), Num(45), Blank, Num(200), Blank, Blank),
      Workout("CoreTraining", DateStr(2024, 1, 1, Evening), Num(15), Blank, Blank, Blank, Blank) }

\* start_date and end_date arguments: none, two days, a day that does not
\* exist, text, and a day followed by a time.
DateArgs ==
    { EmptyStr, DateStr(2024, 1, 1, ""), DateStr(2024, 1, 2, ""),
      DateStr(2024, 2, 30, ""), Text("soon"), DateStr(2024, 1, 2, "T00:00:00") }

Activities == {"Running", "CoreTraining", "Total"}

Granularities == {"monthly", "daily"}

FirstDay == <<2024, 1, 4>>

\* The day after dt.
NextDay(dt) ==
    IF dt[3] < DaysInMonth(dt[1], dt[2]) THEN <<dt[1], dt[2], dt[3] + 1>>
    ELSE IF dt[2] < 12 THEN <<dt[1], dt[2] + 1, 1>>
    ELSE <<dt[1] + 1, 1, 1>>

(***************************************************************************)
(* Requests                                                                *)
(***************************************************************************)
Request(op, activity, start_date, end_date, granularity, group_by_category, page, per_page, from_cache) ==
    [op |-> op, activity |-> activity, start_date |-> start_date, end_date |-> end_date,
     granularity |-> granularity, group_by_category |-> group_by_category,
     page |-> page, per_page |-> per_page, from_cache |-> from_cache]

NoRequest == Request("none", "", EmptyStr, EmptyStr, "monthly", FALSE, 1, 50, FALSE)

\* process_data is not running: no directory left for pass 2, no csv open.
NoBatch == [pc |-> "idle", activity_dirs |-> <<>>, activity |-> "", in_f |-> <<>>]

\* The threads of the server that serve series requests.
Threads == {"t1", "t2"}

\* A thread between two requests: the locals of data() at their first values.
Idle ==
    [pc |-> "idle", activity |-> "", start_date_str |-> EmptyStr, end_date_str |-> EmptyStr,
     granularity |-> "monthly", group_by_category |-> FALSE,
     activities_to_process |-> <<>>, act |-> "", reader |-> <<>>,
     all_data |-> NoBuckets, formatted_result |-> <<>>, from_cache |-> FALSE]

NoThreads == [t \in Threads |-> Idle]

(***************************************************************************)
(* Actions                                                                 *)
(***************************************************************************)
\* A new export.xml is put in place of the old one.
NewExport(doc, records) ==
    /\ export' = [exists |-> TRUE, workouts |-> doc, records |-> records,
                   malformed |-> FALSE]
    /\ export' # export
    /\ UNCHANGED <<tables, aggregated, signals, processed_dir, DATA_CACHE, today, req, resp,
                    threads, batch>>

\* export.xml is taken away.
RemoveExport ==
    /\ export.exists
    /\ export' = [exists |-> FALSE, workouts |-> <<>>, records |-> <<>>,
                   malformed |-> FALSE]
    /\ UNCHANGED <<tables, aggregated, signals, processed_dir, DATA_CACHE, today, req, resp,
                    threads, batch>>

\* A mutant of ProcessData: processed_data is made before export.xml is
\* looked for.
ProcessDataMakingDir ==
    /\ IF ~export.exists
       THEN processed_dir' = TRUE /\ UNCHANGED <<tables, aggregated, signals>>
       ELSE /\ tables' = TablesAfter(tables, export.workouts)
            /\ aggregated' = AggregatedAfter(aggregated, export.workouts)
            /\ signals' = SignalsAfter(export.records)
            /\ processed_dir' = TRUE
    /\ req' = Request("process_data", "", EmptyStr, EmptyStr, "monthly", FALSE, 1, 50, FALSE)
    /\ resp' = <<>>
    /\ UNCHANGED <<export, DATA_CACHE, today, threads, batch>>

\* process_data.py process_data: nothing without export.xml; else pass 1
\* (one workouts.jsonl per activity type), pass 2 (its workouts.csv) and
\* step 3 (its aggregated.json), then the three special categories.  The
\* server's memory is another process's.  An exception of iterparse is
\* caught and printed in pass 1 (line 373) and in each special step (lines
\* 60, 152, 236): every step goes on with the elements read before it, and
\* process_data returns None as it does after a whole document.
ProcessData ==
    /\ IF ~export.exists
       THEN UNCHANGED <<tables, aggregated, signals, processed_dir>>
       ELSE /\ tables' = TablesAfter(tables, export.workouts)
            /\ aggregated' = AggregatedAfter(aggregated, export.workouts)
            /\ signals' = SignalsAfter(export.records)
            /\ processed_dir' = TRUE
    /\ req' = Request("process_data", "", EmptyStr, EmptyStr, "monthly", FALSE, 1, 50, FALSE)
    /\ resp' = <<>>
    /\ UNCHANGED <<export, DATA_CACHE, today, threads, batch>>

\* process_data.py lines 304-386, process_data step by step: export.xml is
\* there, processed_data is made and pass 1 writes a workouts.jsonl for
\* every activity type; pass 2 will take the directories that hold one.
BatchPass1 ==
    /\ batch.pc = "idle"
    /\ export.exists
    /\ processed_dir' = TRUE
    /\ batch' = [NoBatch EXCEPT !.pc = "pass2",
                                !.activity_dirs =
                                    SelectSeq(CategoryOrder,
                                              LAMBDA c : c \in TypesOf(export.workouts))]
    /\ UNCHANGED <<export, tables, aggregated, signals, DATA_CACHE, today, req, resp, threads>>

\* process_data.py lines 388-406: the next directory's workouts.csv is
\* opened with 'w', which empties it, and its header is written.
BatchOpenCsv ==
    /\ batch.pc = "pass2"
    /\ batch.activity_dirs # <<>>
    /\ LET activity == Head(batch.activity_dirs)
       IN  /\ tables' = [c \in DOMAIN tables \cup {activity} |->
                            IF c = activity THEN <<>> ELSE tables[c]]
           /\ batch' = [pc |-> "rows", activity_dirs |-> Tail(batch.activity_dirs),
                        activity |-> activity, in_f |-> RowsOf(export.workouts, activity)]
    /\ UNCHANGED <<export, aggregated, signals, processed_dir, DATA_CACHE, today, req, resp,
                    threads>>

\* process_data.py lines 408-414: one line of workouts.jsonl is written to
\* workouts.csv.
BatchWriteRow ==
    /\ batch.pc = "rows"
    /\ batch.in_f # <<>>
    /\ tables' = [tables EXCEPT ![batch.activity] = Append(@, Head(batch.in_f))]
    /\ batch' = [batch EXCEPT !.in_f = Tail(@)]
    /\ UNCHANGED <<export, aggregated, signals, processed_dir, DATA_CACHE, today, req, resp,
                    threads>>

\* process_data.py lines 417-486: the csv is complete, workouts.jsonl is
\* removed and aggregated.json is written from the csv.
BatchAggregateCsv ==
    /\ batch.pc = "rows"
    /\ batch.in_f = <<>>
    /\ aggregated' = [c \in DOMAIN aggregated \cup {batch.activity} |->
                         IF c = batch.activity THEN BatchAggregate(tables[c])
                         ELSE aggregated[c]]
    /\ batch' = [batch EXCEPT !.pc = "pass2", !.activity = ""]
    /\ UNCHANGED <<export, tables, signals, processed_dir, DATA_CACHE, today, req, resp,
                    threads>>

\* process_data.py lines 488-493: no directory is left; the three special
\* categories are written and process_data returns.
BatchSpecial ==
    /\ batch.pc = "pass2"
    /\ batch.activity_dirs = <<>>
    /\ signals' = SignalsAfter(export.records)
    /\ batch' = [NoBatch EXCEPT !.pc = "done"]
    /\ UNCHANGED <<export, tables, aggregated, processed_dir, DATA_CACHE, today, req, resp,
                    threads>>

\* The scan of one category's csv by the batch step: the rows still to read
\* and aggregated_data so far.
Scan(category, rows) == [category |-> category, rows |-> rows, acc |-> NoAcc]

\* process_data.py lines 432-454: the loop over workouts.csv reads one row.
AggregateWorkoutRow ==
    /\ resp.category = "workouts"
    /\ resp.rows # <<>>
    /\ resp' = [resp EXCEPT !.rows = Tail(@), !.acc = BatchRow(@, Head(resp.rows))]
    /\ UNCHANGED <<export, tables, aggregated, signals, processed_dir, DATA_CACHE, today,
                    req, threads, batch>>

\* process_data.py lines 72-90: the loop over sleep.csv reads one row.
AggregateSleepRow ==
    /\ resp.category = "sleep"
    /\ resp.rows # <<>>
    /\ resp' = [resp EXCEPT !.rows = Tail(@), !.acc = SleepRow(@, Head(resp.rows))]
    /\ UNCHANGED <<export, tables, aggregated, signals, processed_dir, DATA_CACHE, today,
                    req, threads, batch>>

\* process_data.py lines 165-177: the loop over steps.csv reads one row.
AggregateStepsRow ==
    /\ resp.category = "steps"
    /\ resp.rows # <<>>
    /\ resp' = [resp EXCEPT !.rows = Tail(@), !.acc = StepsRow(@, Head(resp.rows))]
    /\ UNCHANGED <<export, tables, aggregated, signals, processed_dir, DATA_CACHE, today,
                    req, threads, batch>>

\* process_data.py lines 251-265: the loop over heart_rate.csv reads one row.
AggregateHeartRateRow ==
    /\ resp.category = "heart_rate"
    /\ resp.rows # <<>>
    /\ resp' = [resp EXCEPT !.rows = Tail(@), !.acc = HeartRateRow(@, Head(resp.rows))]
    /\ UNCHANGED <<export, tables, aggregated, signals, processed_dir, DATA_CACHE, today,
                    req, threads, batch>>

\* app.py data
Data(activity, start_date_str, end_date_str, granularity, group_by_category) ==
    LET eligible == CacheEligible(start_date_str, end_date_str, granularity, group_by_category)
        hit == CacheHit(DATA_CACHE, activity, start_date_str, end_date_str,
                        granularity, group_by_category)
        formatted_result ==
            ComputeSeries(IF processed_dir THEN tables ELSE NoTables, activity,
                          start_date_str, end_date_str, granularity, group_by_category)
    IN  /\ req' = Request("data", activity, start_date_str, end_date_str,
                          granularity, group_by_category, 1, 50, activity # "" /\ hit)
        /\ IF activity = ""
           THEN resp' = <<>> /\ UNCHANGED DATA_CACHE
           ELSE IF hit
           THEN resp' = DATA_CACHE[activity] /\ UNCHANGED DATA_CACHE
           ELSE /\ resp' = formatted_result
                /\ DATA_CACHE' =
                      IF eligible
                      THEN [a \in DOMAIN DATA_CACHE \cup {activity} |->
                               IF a = activity THEN formatted_result ELSE DATA_CACHE[a]]
                      ELSE DATA_CACHE
        /\ UNCHANGED <<export, tables, aggregated, signals, processed_dir, today, threads, batch>>

\* app.py get_activities: the directories that are not special, sorted.
\* CategoryOrder is in the order sorted() gives.
GetActivitiesResult(exists, tbls) ==
    IF ~exists THEN <<>> ELSE ListDir(tbls)

\* app.py ensure_data_processed: processed_data exists and holds an entry.
ensure_data_processed(exists, tbls, sigs) ==
    exists /\ (DOMAIN tbls \cup DOMAIN sigs) # {}

\* A mutant of Index: the page runs the batch step when nothing is
\* processed.
IndexProcessing ==
    /\ req' = Request("index", "", EmptyStr, EmptyStr, "monthly", FALSE, 1, 50, FALSE)
    /\ resp' = "index.html"
    /\ IF ensure_data_processed(processed_dir, tables, signals) \/ ~export.exists
       THEN UNCHANGED <<tables, aggregated, signals, processed_dir>>
       ELSE /\ tables' = TablesAfter(tables, export.workouts)
            /\ aggregated' = AggregatedAfter(aggregated, export.workouts)
            /\ signals' = SignalsAfter(export.records)
            /\ processed_dir' = TRUE
    /\ UNCHANGED <<export, DATA_CACHE, today, threads, batch>>

\* app.py index: the page, or the text that asks for process_data.py.
Index ==
    /\ req' = Request("index", "", EmptyStr, EmptyStr, "monthly", FALSE, 1, 50, FALSE)
    /\ resp' = IF ensure_data_processed(processed_dir, tables, signals)
               THEN "index.html"
               ELSE "Data not processed. Please run 'python process_data.py' in your terminal first."
    /\ UNCHANGED <<export, tables, aggregated, signals, processed_dir, DATA_CACHE, today, threads, batch>>

\* app.py get_activities
GetActivities ==
    /\ req' = Request("activities", "", EmptyStr, EmptyStr, "monthly", FALSE, 1, 50, FALSE)
    /\ resp' = GetActivitiesResult(processed_dir, tables)
    /\ UNCHANGED <<export, tables, aggregated, signals, processed_dir, DATA_CACHE, today, threads, batch>>

\* app.py categorize_activity applied to the name the request holds, the
\* set of keywords iterated in any order.
Categorize(order) ==
    /\ req.op = "none"
    /\ req' = [req EXCEPT !.op = "categorize_activity"]
    /\ resp' = CategorizeActivity(req.activity, order)
    /\ UNCHANGED <<export, tables, aggregated, signals, processed_dir, DATA_CACHE, today, threads, batch>>

\* process_data.py pass 2 for one category: the records of its
\* workouts.jsonl, here the document's, are written as its workouts.csv.
Flatten ==
    /\ req.op = "none"
    /\ req' = [req EXCEPT !.op = "flatten"]
    /\ resp' = FlattenedTable(export.workouts)
    /\ UNCHANGED <<export, tables, aggregated, signals, processed_dir, DATA_CACHE, today, threads, batch>>

\* A mutant of AllDataOf: all_data is one dictionary of the module, the one
\* the first thread fills.
AllDataShared(ths, t) == ths["t1"].all_data

\* app.py lines 233-238: all_data is a local of the call, one per request.
AllDataOf(ths, t) == ths[t].all_data

\* app.py lines 215-246, one thread: the arguments are read and the cache is
\* looked up; a request the cache does not serve lists the tables to scan.
DataLookup(t, activity, start_date_str, end_date_str, granularity, group_by_category) ==
    LET hit == CacheHit(DATA_CACHE, activity, start_date_str, end_date_str,
                        granularity, group_by_category)
        call == [Idle EXCEPT !.activity = activity, !.start_date_str = start_date_str,
                             !.end_date_str = end_date_str, !.granularity = granularity,
                             !.group_by_category = group_by_category]
    IN  /\ threads[t].pc = "idle"
        /\ threads' = [threads EXCEPT ![t] =
              IF activity = ""
              THEN [call EXCEPT !.pc = "return"]
              ELSE IF hit
              THEN [call EXCEPT !.pc = "return", !.from_cache = TRUE,
                                !.formatted_result = DATA_CACHE[activity]]
              ELSE [call EXCEPT !.pc = "scan",
                                !.activities_to_process =
                                    ActivitiesToProcess(IF processed_dir THEN tables ELSE NoTables,
                                                        activity)]]
        /\ UNCHANGED <<export, tables, aggregated, signals, processed_dir, DATA_CACHE, today,
                       req, resp, batch>>

\* app.py lines 248-344, one thread: the next row of the open table is folded
\* into all_data, or the next table is opened, or, with nothing left to scan,
\* all_data is formatted.
DataScan(t) ==
    LET th == threads[t]
    IN  /\ th.pc = "scan"
        /\ threads' = [threads EXCEPT ![t] =
              IF th.reader # <<>>
              THEN [th EXCEPT !.reader = Tail(th.reader),
                              !.all_data = DataRow(AllDataOf(threads, t), th.act, Head(th.reader),
                                                   parse_date(th.start_date_str),
                                                   parse_date(th.end_date_str),
                                                   th.granularity, th.group_by_category)]
              ELSE IF th.activities_to_process # <<>>
              THEN [th EXCEPT !.activities_to_process = Tail(th.activities_to_process),
                              !.act = Head(th.activities_to_process),
                              !.reader = IF Head(th.activities_to_process) \in DOMAIN tables
                                         THEN tables[Head(th.activities_to_process)] ELSE <<>>]
              ELSE [th EXCEPT !.pc = "insert",
                              !.formatted_result =
                                  FormatSeries(AllDataOf(threads, t), th.activity,
                                               th.granularity, th.group_by_category)]]
        /\ UNCHANGED <<export, tables, aggregated, signals, processed_dir, DATA_CACHE, today,
                       req, resp, batch>>

\* app.py lines 346-347, one thread: the cache insert.
DataInsert(t) ==
    LET th == threads[t]
    IN  /\ th.pc = "insert"
        /\ DATA_CACHE' =
              IF CacheEligible(th.start_date_str, th.end_date_str, th.granularity,
                               th.group_by_category)
              THEN [a \in DOMAIN DATA_CACHE \cup {th.activity} |->
                       IF a = th.activity THEN th.formatted_result ELSE DATA_CACHE[a]]
              ELSE DATA_CACHE
        /\ threads' = [threads EXCEPT ![t].pc = "return"]
        /\ UNCHANGED <<export, tables, aggregated, signals, processed_dir, today, req, resp,
                       batch>>

\* app.py lines 222, 229 and 349, one thread: the response is sent.
DataReturn(t) ==
    LET th == threads[t]
    IN  /\ th.pc = "return"
        /\ req' = Request("data", th.activity, th.start_date_str, th.end_date_str,
                          th.granularity, th.group_by_category, 1, 50, th.from_cache)
        /\ resp' = th.formatted_result
        /\ threads' = [threads EXCEPT ![t] = Idle]
        /\ UNCHANGED <<export, tables, aggregated, signals, processed_dir, DATA_CACHE, today,
                       batch>>

\* app.py get_statistics
GetStatistics(start_date_str, end_date_str) ==
    /\ req' = Request("statistics", "", start_date_str, end_date_str, "monthly", FALSE, 1, 50, FALSE)
    /\ resp' = GetStatisticsResult(processed_dir, tables, start_date_str, end_date_str)
    /\ UNCHANGED <<export, tables, aggregated, signals, processed_dir, DATA_CACHE, today, threads, batch>>

\* app.py get_personal_records
GetPersonalRecords(start_date_str, end_date_str) ==
    /\ req' = Request("personal_records", "", start_date_str, end_date_str, "monthly", FALSE, 1, 50, FALSE)
    /\ resp' = GetPersonalRecordsResult(processed_dir, tables, start_date_str, end_date_str, today)
    /\ UNCHANGED <<export, tables, aggregated, signals, processed_dir, DATA_CACHE, today, threads, batch>>

\* app.py get_workout_details
GetWorkoutDetails(page, per_page, activity_filter, start_date_str, end_date_str) ==
    /\ req' = Request("workout_details", activity_filter, start_date_str, end_date_str,
                      "monthly", FALSE, page, per_page, FALSE)
    /\ resp' = GetWorkoutDetailsResult(processed_dir, tables, page, per_page,
                                       activity_filter, start_date_str, end_date_str)
    /\ UNCHANGED <<export, tables, aggregated, signals, processed_dir, DATA_CACHE, today, threads, batch>>

\* app.py get_sleep_data
GetSleepData(start_date_str, end_date_str) ==
    /\ req' = Request("sleep", "", start_date_str, end_date_str, "monthly", FALSE, 1, 50, FALSE)
    /\ resp' = GetSleepDataResult(signals, start_date_str, end_date_str)
    /\ UNCHANGED <<export, tables, aggregated, signals, processed_dir, DATA_CACHE, today, threads, batch>>

\* app.py get_steps_data
GetStepsData(start_date_str, end_date_str, granularity) ==
    /\ req' = Request("steps", "", start_date_str, end_date_str, granularity, FALSE, 1, 50, FALSE)
    /\ resp' = GetStepsDataResult(signals, start_date_str, end_date_str, granularity)
    /\ UNCHANGED <<export, tables, aggregated, signals, processed_dir, DATA_CACHE, today, threads, batch>>

\* app.py get_heart_rate_data
GetHeartRateData(start_date_str, end_date_str) ==
    /\ req' = Request("heart_rate", "", start_date_str, end_date_str, "monthly", FALSE, 1, 50, FALSE)
    /\ resp' = GetHeartRateDataResult(signals, start_date_str, end_date_str)
    /\ UNCHANGED <<export, tables, aggregated, signals, processed_dir, DATA_CACHE, today, threads, batch>>

(***************************************************************************)
(* Specifications                                                          *)
(***************************************************************************)
NoCache == [a \in {} |-> <<>>]

\* The state after one batch run over a document with the Workout elements
\* doc and the Record elements records, the server just started.
ProcessedDocument(doc, records, now) ==
    /\ export = [exists |-> TRUE, workouts |-> doc, records |-> records,
                   malformed |-> FALSE]
    /\ tables = TablesAfter(NoTables, doc)
    /\ aggregated = AggregatedAfter(NoTables, doc)
    /\ signals = SignalsAfter(records)
    /\ processed_dir = TRUE
    /\ DATA_CACHE = NoCache
    /\ today = now
    /\ req = NoRequest
    /\ resp = <<>>
    /\ threads = NoThreads
    /\ batch = NoBatch

\* The same for a document without Record elements.
Processed(doc, now) == ProcessedDocument(doc, <<>>, now)

\* The server has served no request yet.
FirstRequest == req = NoRequest

\* One series query to a server just started over the tables of one batch run.
InitSeries == \E doc \in SeqsUpTo(SeriesWorkouts, MaxRows) : Processed(doc, FirstDay)

NextSeries ==
    /\ FirstRequest
    /\ \E a \in Activities, s \in DateArgs, e \in DateArgs,
          g \in Granularities, grp \in BOOLEAN : Data(a, s, e, g, grp)

SpecSeries == InitSeries /\ [][NextSeries]_vars

(***************************************************************************)
(* Properties of the series query                                          *)
(***************************************************************************)
MonthIndex(name) == CHOOSE i \in DOMAIN month_order : month_order[i] = name

MetricNames == {"count", "duration", "energy", "distance", "avg_duration", "avg_energy"}

\* The request asked for sub-series per bucket.
GroupedRequest(r) == r.activity = "Total" \/ r.group_by_category

YearsAscending(series) ==
    \A i \in DOMAIN series : i > 1 => series[i - 1].year < series[i].year

LabelsOrdered(labels, granularity) ==
    IF granularity = "daily"
    THEN \A i, j \in DOMAIN labels : i < j => labels[i] < labels[j]
    ELSE /\ \A i \in DOMAIN labels : labels[i] \in Range(month_order)
         /\ \A i, j \in DOMAIN labels :
               i < j => MonthIndex(labels[i]) < MonthIndex(labels[j])

ArraysAligned(entry, grouped) ==
    /\ DOMAIN entry.datasets = MetricNames
    /\ \A m \in MetricNames :
          IF grouped
          THEN /\ "Total" \in DOMAIN entry.datasets[m]
               /\ \A b \in DOMAIN entry.datasets[m] :
                     Len(entry.datasets[m][b]) = Len(entry.labels)
          ELSE Len(entry.datasets[m]) = Len(entry.labels)

\* C1: every series the series query returns has its years strictly
\* ascending, the labels of each year in calendar order (a subsequence of the
\* twelve months, or strictly ascending ISO days), and every dataset array,
\* sub-series and Total included, as long as the labels.
C1_SeriesWellFormed ==
    req.op = "data" =>
        /\ YearsAscending(resp)
        /\ \A i \in DOMAIN resp :
              /\ LabelsOrdered(resp[i].labels, req.granularity)
              /\ ArraysAligned(resp[i], GroupedRequest(req))

\* A grouped daily response with two days in one year, and a monthly one
\* with two years.
C1_Witness ==
    /\ req.op = "data"
    /\ req.activity = "Total"
    /\ req.group_by_category
    /\ req.granularity = "daily"
    /\ \E i \in DOMAIN resp :
          /\ Len(resp[i].labels) = 2
          /\ Cardinality(DOMAIN resp[i].datasets.count) = 3

\* The number a cell of a numeric table holds.
CellNumber(c) == IF c.k = "num" THEN c.n ELSE 0

\* The duration, energy and distance cells are numbers or empty.
NumericRow(row) ==
    \A c \in {row.duration, row.stat_ActiveEnergyBurned_sum, row.totalEnergyBurned,
              row.stat_DistanceWalkingRunning_sum, row.totalDistance} :
        c.k \in {"num", "empty"}

NumericTable(rows) == \A i \in DOMAIN rows : NumericRow(rows[i])

\* The value of a row for a metric: the statistic's sum where the row has
\* one, else the legacy total, else zero.
RowValue(row, metric) ==
    IF metric = "duration" THEN CellNumber(row.duration)
    ELSE IF metric = "energy"
    THEN (IF row.stat_ActiveEnergyBurned_sum.k # "empty"
          THEN CellNumber(row.stat_ActiveEnergyBurned_sum)
          ELSE CellNumber(row.totalEnergyBurned))
    ELSE (IF row.stat_DistanceWalkingRunning_sum.k # "empty"
          THEN CellNumber(row.stat_DistanceWalkingRunning_sum)
          ELSE CellNumber(row.totalDistance))

\* The rows of a table whose start date (first ten characters) is a day of
\* month m of year y.
RowsInMonth(rows, y, m) ==
    {i \in DOMAIN rows :
        /\ ValidDate(rows[i].startDate.y, rows[i].startDate.m, rows[i].startDate.d)
        /\ rows[i].startDate.y = y
        /\ rows[i].startDate.m = m}

RECURSIVE SumOver(_, _, _)
SumOver(rows, I, metric) ==
    IF I = {} THEN 0
    ELSE LET i == CHOOSE x \in I : TRUE
         IN  RowValue(rows[i], metric) + SumOver(rows, I \ {i}, metric)

\* The buckets a table should give: the rows of each month counted, their
\* values summed.
ExpectedBuckets(rows) ==
    {[year |-> y, label |-> month_order[m],
      count |-> Cardinality(RowsInMonth(rows, y, m)),
      duration |-> SumOver(rows, RowsInMonth(rows, y, m), "duration"),
      energy |-> SumOver(rows, RowsInMonth(rows, y, m), "energy"),
      distance |-> SumOver(rows, RowsInMonth(rows, y, m), "distance")] :
        <<y, m>> \in {<<rows[i].startDate.y, rows[i].startDate.m>> :
                        i \in {j \in DOMAIN rows : RowsInMonth(rows, rows[j].startDate.y,
                                                               rows[j].startDate.m) # {}}}}

\* The buckets of a series without sub-series.
BucketsOf(series) ==
    {[year |-> series[i].year, label |-> series[i].labels[j],
      count |-> series[i].datasets.count[j],
      duration |-> series[i].datasets.duration[j],
      energy |-> series[i].datasets.energy[j],
      distance |-> series[i].datasets.distance[j]] :
        <<i, j>> \in {<<a, b>> \in (DOMAIN series) \X (1..12) : b \in DOMAIN series[a].labels}}

UnfilteredMonthlySingle(r) ==
    /\ r.op = "data"
    /\ r.activity # "Total"
    /\ r.start_date = EmptyStr
    /\ r.end_date = EmptyStr
    /\ r.granularity = "monthly"
    /\ ~r.group_by_category

\* The bucket b of a response, in tenths, is the expected bucket e, in
\* thousandths, exactly.
ExactlyAs(b, e) ==
    /\ b.year = e.year /\ b.label = e.label
    /\ b.count = 10 * e.count
    /\ 100 * b.duration = e.duration
    /\ 100 * b.energy = e.energy
    /\ 100 * b.distance = e.distance

\* The tenth t is a tenth nearest to h thousandths.
NearestTenth(t, h) == 100 * t - h \in -50..50

\* The bucket b of a response is the expected bucket e with its sums rounded
\* to one decimal.
RoundedAs(b, e) ==
    /\ b.year = e.year /\ b.label = e.label
    /\ b.count = 10 * e.count
    /\ NearestTenth(b.duration, e.duration)
    /\ NearestTenth(b.energy, e.energy)
    /\ NearestTenth(b.distance, e.distance)

\* The buckets B and E are the same buckets under Same.
Matched(B, E, Same(_, _)) ==
    /\ Cardinality(B) = Cardinality(E)
    /\ \A b \in B : \E e \in E : Same(b, e)
    /\ \A e \in E : \E b \in B : Same(b, e)

\* The aggregated.json of every table of numeric cells holds, per (year,
\* month), the number of rows of that month and the sums of their values.
BatchBucketsExact ==
    \A c \in DOMAIN aggregated :
        NumericTable(tables[c]) => BucketsOf(aggregated[c]) = ExpectedBuckets(tables[c])

\* The request is an unfiltered monthly series query of one category whose
\* table exists and has numeric cells.
PlainQueryOfNumericTable ==
    /\ UnfilteredMonthlySingle(req)
    /\ req.activity \in DOMAIN tables
    /\ NumericTable(tables[req.activity])

RECURSIVE DaysFrom(_, _)
DaysFrom(dt, n) == IF n = 0 THEN {dt} ELSE {dt} \cup DaysFrom(NextDay(dt), n - 1)

ClockDays == DaysFrom(FirstDay, MaxTicks)

RecordDateArgs == {EmptyStr, DateStr(2024, 1, 2, "")}

\* Personal-records queries, one after the other, over the tables of one
\* batch run and with the clock at one day.
InitRecords ==
    \E doc \in SeqsUpTo(StreakWorkouts, MaxDays), now \in ClockDays : Processed(doc, now)

NextRecords == \E s \in RecordDateArgs, e \in RecordDateArgs : GetPersonalRecords(s, e)

SpecRecords == InitRecords /\ [][NextRecords]_vars

\* The days, as ordinals, on which some table that is not special has a workout.
WorkoutDays ==
    {Ordinal(<<r.startDate.y, r.startDate.m, r.startDate.d>>) :
        r \in {x \in UNION {Range(tables[c]) : c \in DOMAIN tables \ special_dirs} :
                  ValidDate(x.startDate.y, x.startDate.m, x.startDate.d)}}

\* n consecutive days ending at day o are all in the set S of days.
RunEnds(S, o, n) == \A k \in 0..(n - 1) : (o - k) \in S

\* The length of the longest run of consecutive days in S.
LongestRunOf(S) ==
    IF S = {} THEN 0
    ELSE CHOOSE n \in 1..Cardinality(S) :
            /\ \E o \in S : RunEnds(S, o, n)
            /\ \A m \in (n + 1)..Cardinality(S) : ~\E o \in S : RunEnds(S, o, m)

\* The length of the run of consecutive days in S that ends at day o.
RunEndingAt(S, o) ==
    CHOOSE n \in 1..Cardinality(S) : RunEnds(S, o, n) /\ (o - n) \notin S

Latest(S) == CHOOSE o \in S : \A x \in S : x <= o

\* C5: longest_streak is the length of the longest run of consecutive
\* calendar days with at least one workout, whatever the table and however
\* often a day occurs.
C5_LongestStreak ==
    req.op = "personal_records" => resp.longest_streak = LongestRunOf(WorkoutDays)

\* The days 2024-01-01, 01-02, 01-03 and 01-05: a streak of three.
C5_Witness ==
    /\ req.op = "personal_records"
    /\ WorkoutDays = {Ordinal(<<2024, 1, 1>>), Ordinal(<<2024, 1, 2>>),
                      Ordinal(<<2024, 1, 3>>), Ordinal(<<2024, 1, 5>>)}
    /\ resp.longest_streak = 3

\* C6: current_streak is non-zero only if the most recent workout day is
\* today or yesterday; then it is the length of the run ending at that day,
\* and with a gap of two days or more it is zero.
C6_CurrentStreak ==
    req.op = "personal_records" =>
        LET days == WorkoutDays
            gap == Ordinal(today) - Latest(days)
        IN  days # {} =>
              /\ resp.current_streak # 0 => gap \in {0, 1}
              /\ gap \in {0, 1} => resp.current_streak = RunEndingAt(days, Latest(days))
              /\ gap >= 2 => resp.current_streak = 0

\* The rows a personal-records request asks for: a date inside its range.
InRequestedRange(row, r) ==
    LET o == Ordinal(<<row.startDate.y, row.startDate.m, row.startDate.d>>)
        lo == parse_date(r.start_date)
        hi == parse_date(r.end_date)
    IN  /\ ValidDate(row.startDate.y, row.startDate.m, row.startDate.d)
        /\ lo # None => Ordinal(lo) <= o
        /\ hi # None => o <= Ordinal(hi)

RowsInRange(r) ==
    {x \in UNION {Range(tables[c]) : c \in DOMAIN tables \ special_dirs} : InRequestedRange(x, r)}

\* longest_workout and most_active_month rest on the rows in range alone.
BestsFromRange(r, out) ==
    LET rows == RowsInRange(r)
        InMonth(x) == {z \in rows : z.startDate.y = x.startDate.y /\ z.startDate.m = x.startDate.m}
    IN  /\ \A x \in rows : CellNumber(x.duration) <= 10 * out.longest_workout.duration + 5
        /\ out.longest_workout.duration > 0 =>
              \E x \in rows : /\ RoundDiv2(CellNumber(x.duration), 1000)
                                    = out.longest_workout.duration
                              /\ First10(x.startDate) = out.longest_workout.date
        /\ rows = {} => out.most_active_month.count = 0
        /\ out.most_active_month.count > 0 =>
              \E x \in rows : /\ MonthName(parse_date(x.startDate)) = out.most_active_month.month
                              /\ x.startDate.y = out.most_active_month.year

\* C7: with the tables and the clock fixed, two personal-records queries that
\* differ only in their date range return the same longest_streak and the
\* same current_streak, while longest_workout and most_active_month come from
\* the rows inside the requested range.
C7_StreaksIgnoreRange ==
    [][(req.op = "personal_records" /\ req'.op = "personal_records") =>
          /\ resp'.longest_streak = resp.longest_streak
          /\ resp'.current_streak = resp.current_streak
          /\ BestsFromRange(req', resp')]_vars

\* A request whose range holds one workout day while the streak spans three.
C7_Witness ==
    /\ req.op = "personal_records"
    /\ req.start_date = DateStr(2024, 1, 2, "")
    /\ req.end_date = DateStr(2024, 1, 2, "")
    /\ resp.longest_streak = 3
    /\ resp.most_active_month.count = 1
    /\ resp.longest_workout.date = DateStr(2024, 1, 2, "")

(***************************************************************************)
(* Workout detail listing: specification and properties                    *)
(***************************************************************************)
\* One detail-listing request to a server just started over the tables of
\* one batch run.
InitDetails == \E doc \in SeqsUpTo(DetailWorkouts, MaxDays) : Processed(doc, FirstDay)

NextDetails ==
    /\ FirstRequest
    /\ \E page \in 1..(MaxPage + 2), per_page \in 1..MaxPage,
          a \in {"", "Running"},
          s \in {EmptyStr, DateStr(2024, 1, 2, "")},
          e \in {EmptyStr, DateStr(2024, 1, 1, "")} :
              GetWorkoutDetails(page, per_page, a, s, e)

SpecDetails == InitDetails /\ [][NextDetails]_vars

\* The table positions <<category, index>> a detail request matches.
Matching(r) ==
    {ci \in UNION {{<<c, i>> : i \in DOMAIN tables[c]} : c \in DOMAIN tables \ special_dirs} :
        /\ r.activity = "" \/ ci[1] = r.activity
        /\ InRequestedRange(tables[ci[1]][ci[2]], r)}

\* The listed form of the row at a table position.
Listed(ci) ==
    LET row == tables[ci[1]][ci[2]]
    IN  [activity |-> ci[1], startDate |-> row.startDate,
         duration |-> RoundDiv2(RowValue(row, "duration"), 1000),
         energy |-> RoundDiv2(RowValue(row, "energy"), 1000),
         distance |-> RoundDiv2(RowValue(row, "distance"), 1000)]

RECURSIVE Concat(_)
Concat(seqs) == IF seqs = <<>> THEN <<>> ELSE Head(seqs) \o Concat(Tail(seqs))

\* The pages 1..n of the request r.
PagesOf(r, n) ==
    [j \in 1..n |->
        GetWorkoutDetailsResult(processed_dir, tables, j, r.per_page, r.activity,
                                r.start_date, r.end_date).data]

\* lst holds every matching workout as often as the tables do, latest first.
FullDescendingList(lst, r) ==
    /\ \A i, j \in DOMAIN lst : i < j => ~StrLess(lst[i].startDate, lst[j].startDate)
    /\ \A v \in Range(lst) \cup {Listed(ci) : ci \in Matching(r)} :
          Cardinality({i \in DOMAIN lst : lst[i] = v})
            = Cardinality({ci \in Matching(r) : Listed(ci) = v})

\* C8: with N matching workouts, per_page p and page k, total is N on every
\* page, total_pages is the ceiling of N / p, page k holds
\* min(p, max(0, N - (k - 1) * p)) items, and the pages 1..total_pages one
\* after the other are the whole list, latest first, nothing twice or left out.
C8_Pagination ==
    req.op = "workout_details" =>
        LET N == Cardinality(Matching(req))
            p == req.per_page
            k == req.page
            rest == N - (k - 1) * p
            pages == PagesOf(req, resp.total_pages)
        IN  /\ resp.total = N
            /\ resp.total_pages * p >= N
            /\ (resp.total_pages - 1) * p < N \/ (N = 0 /\ resp.total_pages = 0)
            /\ Len(resp.data) = (IF rest < 0 THEN 0 ELSE IF rest < p THEN rest ELSE p)
            /\ FullDescendingList(Concat(pages), req)
            /\ k <= resp.total_pages => resp.data = pages[k]

\* Four workouts, two a page: page 2 is full, and a page past the last is empty.
C8_Witness ==
    /\ req.op = "workout_details"
    /\ req.per_page = 2
    /\ resp.total = 4
    /\ \/ req.page = 2 /\ Len(resp.data) = 2 /\ resp.total_pages = 2
       \/ req.page = 3 /\ Len(resp.data) = 0 /\ resp.total_pages = 2

(***************************************************************************)
(* The date filter: specification and properties                           *)
(***************************************************************************)
\* The workouts and the records of the filter specification: days on and
\* around the bounds asked for, and a row without a start date.
FilterWorkouts ==
    { Workout("Running", DateStr(2024, 1, 1, Morning), Num(10), Num(100), Blank, Blank, Num(5)),
      Workout("Running", DateStr(2024, 1, 2, Evening), Num(20), Num(50), Num(70), Num(3), Num(4)),
      Workout("CoreTraining", DateStr(2024, 1, 2, Morning), Num(45), Blank, Num(200), Blank, Blank),
      Workout("Running", EmptyStr, Num(30), Num(100), Blank, Blank, Num(5)) }

FilterRecords ==
    { Record(SleepType, DateStr(2024, 1, 1, Evening), Cell("bad", 1), 420),
      Record(SleepType, DateStr(2024, 1, 2, Evening), Cell("bad", 2), 480),
      Record(StepType, DateStr(2024, 1, 1, Morning), Num(4000), 0),
      Record(StepType, DateStr(2024, 1, 2, Morning), Num(2500), 0),
      Record(StepType, EmptyStr, Num(100), 0),
      Record(HeartRateType, DateStr(2024, 1, 1, Morning), Num(60), 0),
      Record(HeartRateType, DateStr(2024, 1, 2, Morning), Num(75), 0) }

FilterDateArgs ==
    { EmptyStr, DateStr(2024, 1, 1, ""), DateStr(2024, 1, 2, ""),
      Text("soon"), DateStr(2024, 1, 2, "T00:00:00") }

\* One request with a date range to a server just started over the tables
\* of one batch run.
InitFilter ==
    \/ \E doc \in SeqsUpTo(FilterWorkouts, MaxRows) : ProcessedDocument(doc, <<>>, FirstDay)
    \/ \E records \in SeqsUpTo(FilterRecords, MaxRows) : ProcessedDocument(<<>>, records, FirstDay)

NextFilter ==
    /\ FirstRequest
    /\ \E s \in FilterDateArgs, e \in FilterDateArgs :
          \/ \E a \in {"Running", "Total"}, g \in Granularities : Data(a, s, e, g, FALSE)
          \/ GetStatistics(s, e)
          \/ GetPersonalRecords(s, e)
          \/ GetWorkoutDetails(1, 50, "", s, e)
          \/ GetSleepData(s, e)
          \/ \E g \in Granularities : GetStepsData(s, e, g)
          \/ GetHeartRateData(s, e)

SpecFilter == InitFilter /\ [][NextFilter]_vars

\* The string is a bound the operation parses: a calendar day written
\* YYYY-MM-DD, for summary statistics with nothing after it.
Parseable(op, str) ==
    /\ ValidDate(str.y, str.m, str.d)
    /\ op = "statistics" => str.tail = ""

DayOf(str) == Ordinal(<<str.y, str.m, str.d>>)

\* start_date <= d <= end_date for the calendar date d of the row, a bound
\* that is missing or not parseable leaving its side open.
WithinBounds(row, r) ==
    /\ ValidDate(row.startDate.y, row.startDate.m, row.startDate.d)
    /\ Parseable(r.op, r.start_date) => DayOf(r.start_date) <= DayOf(row.startDate)
    /\ Parseable(r.op, r.end_date) => DayOf(row.startDate) <= DayOf(r.end_date)

\* The rows the request r reads, as positions <<table, index>>.
RowsRead(r) ==
    IF r.op \in special_dirs
    THEN {<<r.op, i>> : i \in DOMAIN signals[r.op].csv}
    ELSE {ci \in UNION {{<<c, i>> : i \in DOMAIN tables[c]} : c \in DOMAIN tables} :
             r.op = "data" /\ r.activity # "Total" => ci[1] = r.activity}

RowAt(ci) == IF ci[1] \in special_dirs THEN signals[ci[1]].csv[ci[2]] ELSE tables[ci[1]][ci[2]]

\* The rows the request r should include.
Included(r) == {ci \in RowsRead(r) : WithinBounds(RowAt(ci), r)}

\* The label of an included row.
ExpectedLabel(ci, granularity) ==
    LET sd == RowAt(ci).startDate
    IN  IF granularity = "daily" THEN <<sd.y, sd.y * 10000 + sd.m * 100 + sd.d>>
        ELSE <<sd.y, month_order[sd.m]>>

\* The <<year, label>> pairs of a series.
LabelsOf(series) ==
    UNION {{<<series[i].year, series[i].labels[j]>> : j \in DOMAIN series[i].labels} :
              i \in DOMAIN series}

\* The sum of all values of a series' dataset.
DatasetSum(series, Pick(_)) ==
    SumSeq([i \in DOMAIN series |-> SumSeq(Pick(series[i].datasets))])

\* The sum of the cells in column col of the rows at the positions S.
RECURSIVE SumCells(_, _)
SumCells(S, col) ==
    IF S = {} THEN 0
    ELSE LET ci == CHOOSE x \in S : TRUE
         IN  CellNumber(RowAt(ci)[col]) + SumCells(S \ {ci}, col)

\* The largest number of included rows in one month, and their longest duration.
BusiestMonth(S) ==
    LET InMonth(ci) == {x \in S : /\ RowAt(x).startDate.y = RowAt(ci).startDate.y
                                  /\ RowAt(x).startDate.m = RowAt(ci).startDate.m}
    IN  IF S = {} THEN 0
        ELSE CHOOSE n \in 1..Cardinality(S) :
                /\ \E ci \in S : Cardinality(InMonth(ci)) = n
                /\ \A ci \in S : Cardinality(InMonth(ci)) <= n

\* C3: in every query with start_date and end_date, the rows of a response
\* are the rows whose calendar date d has start_date <= d <= end_date, the
\* bounds themselves included, and a bound that is missing or that the
\* operation cannot parse leaves its side open.  Seen in the count of the
\* summary, the total of the listing, the busiest month of the records, and
\* the labels, counts and totals of the series.
C3_InclusiveDateFilter ==
    LET rows == Included(req)
        labels == {ExpectedLabel(ci, req.granularity) : ci \in rows}
    IN  /\ req.op = "statistics" => resp.total_workouts = Cardinality(rows)
        /\ req.op = "workout_details" => resp.total = Cardinality(rows)
        /\ req.op = "personal_records" => resp.most_active_month.count = BusiestMonth(rows)
        /\ req.op = "data" =>
              /\ LabelsOf(resp) = labels
              /\ DatasetSum(resp, LAMBDA d : IF req.activity = "Total" THEN d.count["Total"]
                                             ELSE d.count) = 10 * Cardinality(rows)
        /\ req.op \in {"sleep", "heart_rate"} => LabelsOf(resp) = labels
        /\ req.op = "steps" =>
              /\ LabelsOf(resp) = labels
              /\ DatasetSum(resp, LAMBDA d : d.total_steps) = SumCells(rows, "value")

\* Two workouts on consecutive days and a range that is the first day alone:
\* the workout of that day is counted, the other is not.
C3_Witness ==
    /\ req.op = "statistics"
    /\ req.start_date = DateStr(2024, 1, 1, "")
    /\ req.end_date = DateStr(2024, 1, 1, "")
    /\ Cardinality(RowsRead(req)) = 2
    /\ \E ci \in RowsRead(req) : RowAt(ci).startDate = DateStr(2024, 1, 2, Evening)
    /\ resp.total_workouts = 1

\* C4: the summary statistics computed with a date range count no row whose
\* date lies outside the range, and their total_workouts is at most the
\* total_workouts computed without a range over the same tables.
C4_FilteredStatistics ==
    req.op = "statistics" =>
        LET inside == Included(req)
            unfiltered == GetStatisticsResult(processed_dir, tables, EmptyStr, EmptyStr)
        IN  /\ resp.total_workouts <= Cardinality(inside)
            /\ 10 * resp.total_duration_minutes <= SumCells(inside, "duration") + 5
            /\ resp.total_workouts <= unfiltered.total_workouts

\* A range that starts after the first of two workouts: one counted, two without a range.
C4_Witness ==
    /\ req.op = "statistics"
    /\ req.start_date = DateStr(2024, 1, 2, "")
    /\ req.end_date = EmptyStr
    /\ resp.total_workouts = 1
    /\ GetStatisticsResult(processed_dir, tables, EmptyStr, EmptyStr).total_workouts = 2

(***************************************************************************)
(* The life cycle: exports, batch runs and requests                        *)
(***************************************************************************)
\* The export documents of the life-cycle specification, each its Workout
\* and its Record elements: one run, the same run with a later workout and a
\* step count added, and a document of another category.
LifeDocs ==
    LET r1 == Workout("Running", DateStr(2024, 1, 1, Morning), Num(10), Num(100), Blank, Blank, Num(5))
        r2 == Workout("Running", DateStr(2024, 1, 2, Morning), Num(20), Num(50), Num(70), Num(3), Num(4))
        c1 == Workout("CoreTraining", DateStr(2024, 2, 1, Morning), Num(15), Num(60), Blank, Blank, Blank)
        steps == Record(StepType, DateStr(2024, 1, 1, Morning), Num(4000), 0)
    IN  {<<<<r1>>, <<>>>>, <<<<r1, r2>>, <<steps>>>>, <<<<c1>>, <<>>>>}

\* The server starts before anything is exported or processed.
Init ==
    /\ export = [exists |-> FALSE, workouts |-> <<>>, records |-> <<>>,
                   malformed |-> FALSE]
    /\ tables = NoTables
    /\ aggregated = NoTables
    /\ signals = NoSignals
    /\ processed_dir = FALSE
    /\ DATA_CACHE = NoCache
    /\ today = FirstDay
    /\ req = NoRequest
    /\ resp = <<>>
    /\ threads = NoThreads
    /\ batch = NoBatch

Next ==
    \/ \E doc \in LifeDocs : NewExport(doc[1], doc[2])
    \/ ProcessData
    \/ \E a \in {"Running", "Total"}, s \in {EmptyStr, DateStr(2024, 1, 1, "")},
          g \in Granularities, grp \in BOOLEAN : Data(a, s, EmptyStr, g, grp)
    \/ GetStatistics(EmptyStr, EmptyStr)
    \/ GetPersonalRecords(EmptyStr, EmptyStr)
    \/ GetWorkoutDetails(1, 1, "", EmptyStr, EmptyStr)
    \/ GetSleepData(EmptyStr, EmptyStr)
    \/ GetStepsData(EmptyStr, EmptyStr, "monthly")
    \/ GetHeartRateData(EmptyStr, EmptyStr)
    \/ GetActivities
    \/ Index

Spec == Init /\ [][Next]_vars

(***************************************************************************)
(* The result cache: specification and properties                          *)
(***************************************************************************)
\* Series queries, one after the other, over the tables of one batch run.
InitCache == \E doc \in SeqsUpTo(UNION {Range(d[1]) : d \in LifeDocs}, MaxRows) : Processed(doc, FirstDay)

NextCache ==
    \E a \in Activities, s \in {EmptyStr, DateStr(2024, 1, 2, "")},
       g \in Granularities, grp \in BOOLEAN : Data(a, s, EmptyStr, g, grp)

SpecCache == InitCache /\ [][NextCache]_vars

\* An unfiltered, monthly, ungrouped series request.
PlainSeriesRequest(r) ==
    /\ r.op = "data"
    /\ r.activity # ""
    /\ r.start_date = EmptyStr
    /\ r.end_date = EmptyStr
    /\ r.granularity = "monthly"
    /\ ~r.group_by_category

\* C9: while the tables do not change, a response served from the result
\* cache is the response a fresh computation from the tables gives for the
\* same arguments.
C9_CacheMatchesFresh ==
    (req.op = "data" /\ req.from_cache) =>
        resp = ComputeSeries(tables, req.activity, req.start_date, req.end_date,
                             req.granularity, req.group_by_category)

\* A response served from the cache, with the cache holding filtered requests' siblings.
C9_Witness ==
    /\ req.op = "data"
    /\ req.from_cache
    /\ req.activity = "Running"
    /\ resp # <<>>
    /\ DOMAIN DATA_CACHE = Activities

\* C10: requests run one after the other; an entry of the result cache is
\* never changed or removed, by a query or by a batch run, and a later
\* unfiltered monthly ungrouped series query for its category returns it.
C10_CacheNeverInvalidated ==
    [][/\ \A a \in DOMAIN DATA_CACHE :
             a \in DOMAIN DATA_CACHE' /\ DATA_CACHE'[a] = DATA_CACHE[a]
       /\ (PlainSeriesRequest(req') /\ req'.activity \in DOMAIN DATA_CACHE)
             => resp' = DATA_CACHE[req'.activity]]_vars

\* A cached series returned after the table was regenerated with other content.
C10_Witness ==
    /\ PlainSeriesRequest(req)
    /\ req.from_cache
    /\ req.activity = "Running"
    /\ resp = DATA_CACHE["Running"]
    /\ resp # ComputeSeries(tables, "Running", EmptyStr, EmptyStr, "monthly", FALSE)


(***************************************************************************)
(* Concurrent series requests: specification and properties                *)
(***************************************************************************)
\* The documents of the concurrent specification: those of the life cycle
\* and each of them followed by another.
ConcurrentDocs ==
    {d[1] : d \in LifeDocs} \cup {d[1] \o e[1] : d \in LifeDocs, e \in LifeDocs}

\* Two threads serve series requests at the same time, each one request
\* after the other, over the tables of one batch run.
InitConcurrent == \E doc \in ConcurrentDocs : Processed(doc, FirstDay)

NextConcurrent ==
    \E t \in Threads :
        \/ \E a \in {"Running", "Total"}, s \in {EmptyStr, DateStr(2024, 1, 2, "")} :
              DataLookup(t, a, s, EmptyStr, "monthly", FALSE)
        \/ DataScan(t)
        \/ DataInsert(t)
        \/ DataReturn(t)

SpecConcurrent == InitConcurrent /\ [][NextConcurrent]_vars

\* The response of a series request that runs alone over the tables.
RunAlone(th) ==
    IF th.activity = "" THEN <<>>
    ELSE ComputeSeries(tables, th.activity, th.start_date_str, th.end_date_str,
                       th.granularity, th.group_by_category)

\* C11: with series requests running concurrently over unchanged tables,
\* every request that has its response has the response it gets when it runs
\* alone, and the cache holds for each key the series one request alone
\* inserts for it.
C11_ConcurrentRequests ==
    /\ \A t \in Threads :
          threads[t].pc \in {"insert", "return"} =>
              threads[t].formatted_result = RunAlone(threads[t])
    /\ \A a \in DOMAIN DATA_CACHE :
          DATA_CACHE[a] = ComputeSeries(tables, a, EmptyStr, EmptyStr, "monthly", FALSE)

\* Both threads scanned the same two-row table for the same key at the same
\* time; one has inserted its series and the other is about to insert again.
C11_Witness ==
    /\ threads["t1"].pc = "insert"
    /\ threads["t2"].pc = "return"
    /\ ~threads["t2"].from_cache
    /\ threads["t1"].activity = "Running"
    /\ threads["t2"].activity = "Running"
    /\ threads["t1"].start_date_str = EmptyStr
    /\ threads["t2"].start_date_str = EmptyStr
    /\ "Running" \in DOMAIN DATA_CACHE
    /\ "Running" \in DOMAIN tables
    /\ Len(tables["Running"]) >= 2
    /\ "CoreTraining" \in DOMAIN tables

(***************************************************************************)
(* The series query against the persisted aggregate                        *)
(***************************************************************************)
\* A value of a response (tenths) is the persisted value of dataset f (a
\* whole count, an amount in thousandths).
SameValue(f, returned, persisted) ==
    IF f = "count" THEN returned = 10 * persisted ELSE 100 * returned = persisted

\* The year entry `returned` of a response is the persisted year entry.
SameEntry(returned, persisted) ==
    /\ returned.year = persisted.year
    /\ returned.labels = persisted.labels
    /\ DOMAIN returned.datasets = DOMAIN persisted.datasets
    /\ \A f \in DOMAIN returned.datasets :
          /\ DOMAIN returned.datasets[f] = DOMAIN persisted.datasets[f]
          /\ \A i \in DOMAIN returned.datasets[f] :
                SameValue(f, returned.datasets[f][i], persisted.datasets[f][i])

\* The response `returned` is the persisted series.
SameSeries(returned, persisted) ==
    /\ DOMAIN returned = DOMAIN persisted
    /\ \A i \in DOMAIN returned : SameEntry(returned[i], persisted[i])

\* C12: a series query for one category with no date filter, monthly
\* granularity and no categorization returns exactly the series the batch
\* step persisted in that category's aggregated.json.
C12_FastPathReturnsPersisted ==
    (PlainSeriesRequest(req) /\ req.activity # "Total" /\ req.activity \in DOMAIN aggregated)
        => SameSeries(resp, aggregated[req.activity])

(***************************************************************************)
(* The filtered sleep query against the precomputed sleep series           *)
(***************************************************************************)
\* The sleep_hours of a series, each with its year and its month.
SleepHoursOf(series) ==
    UNION {{<<series[i].year, series[i].labels[j], series[i].datasets["sleep_hours"][j]>> :
               j \in DOMAIN series[i].labels} : i \in DOMAIN series}

\* The request gives a date range and every row of the table rows lies in it.
RangeContainsEveryRow(r, rows) ==
    /\ r.start_date # EmptyStr \/ r.end_date # EmptyStr
    /\ \A i \in DOMAIN rows :
          /\ parse_date(rows[i].startDate) # None
          /\ InRange(parse_date(rows[i].startDate), parse_date(r.start_date),
                     parse_date(r.end_date))

\* C13: for a date range that contains every row of the sleep table, the
\* filtered sleep query returns per year and month the sleep_hours of the
\* precomputed series, the one the unfiltered sleep query returns.
C13_FilteredSleepMatchesBatch ==
    (req.op = "sleep" /\ "sleep" \in DOMAIN signals
        /\ RangeContainsEveryRow(req, signals["sleep"].csv))
        => SleepHoursOf(resp) = SleepHoursOf(GetSleepDataResult(signals, EmptyStr, EmptyStr))

(***************************************************************************)
(* Heart rate: specification and properties                                *)
(***************************************************************************)
\* Heart-rate readings: two positive ones, a zero, a negative one, one of
\* another month and one that is no number.
HeartRateRecords ==
    { Record(HeartRateType, DateStr(2024, 1, 1, Morning), Num(60), 0),
      Record(HeartRateType, DateStr(2024, 1, 2, Morning), Num(75), 0),
      Record(HeartRateType, DateStr(2024, 1, 2, Evening), Num(0), 0),
      Record(HeartRateType, DateStr(2024, 2, 1, Morning), Num(-5), 0),
      Record(HeartRateType, DateStr(2024, 1, 1, Evening), Cell("bad", 1), 0) }

\* One heart-rate query to a server just started over the heart-rate table
\* of one batch run.
InitHeartRate ==
    \E records \in SeqsUpTo(HeartRateRecords, MaxRows) : ProcessedDocument(<<>>, records, FirstDay)

NextHeartRate ==
    /\ FirstRequest
    /\ \E s \in {EmptyStr, DateStr(2024, 1, 1, ""), DateStr(2024, 1, 2, "")},
          e \in {EmptyStr, DateStr(2024, 1, 2, ""), DateStr(2024, 2, 1, "")} :
          GetHeartRateData(s, e)

SpecHeartRate == InitHeartRate /\ [][NextHeartRate]_vars

\* The rows of a heart-rate table with a reading above zero, and the rows
\* whose reading is no number.
WithoutNonPositive(rows) ==
    SelectSeq(rows, LAMBDA row : ~(row.value.k = "num" /\ row.value.n <= 0))

\* C14: a heart-rate reading of zero or less changes no bucket of the batch
\* aggregate and none of the filtered query, and creates none: both are what
\* they are over the table without these readings.
C14_NonPositiveReadingsDiscarded ==
    "heart_rate" \in DOMAIN signals =>
        LET rows == signals["heart_rate"].csv
        IN  /\ signals["heart_rate"].json =
                  FormatHeartRate(HeartRateFold(WithoutNonPositive(rows), NoAcc))
            /\ (req.op = "heart_rate" /\ (req.start_date # EmptyStr \/ req.end_date # EmptyStr))
                  => resp = aggregate_heart_rate_by_date(WithoutNonPositive(rows),
                                                         req.start_date, req.end_date)

\* The same for the filtered query alone.
C14_FilteredQueryDiscards ==
    ("heart_rate" \in DOMAIN signals /\ req.op = "heart_rate"
        /\ (req.start_date # EmptyStr \/ req.end_date # EmptyStr))
        => resp = aggregate_heart_rate_by_date(WithoutNonPositive(signals["heart_rate"].csv),
                                               req.start_date, req.end_date)

(***************************************************************************)
(* Queries without processed data                                          *)
(***************************************************************************)
QueryOps ==
    {"data", "sleep", "steps", "heart_rate", "statistics", "personal_records",
     "workout_details", "activities"}

\* The response r to a request of operation op is explicitly empty: an
\* empty list, a summary of zeros, or a page without workouts.
ExplicitlyEmpty(op, r) ==
    /\ r # ServerError
    /\ IF op = "statistics"
       THEN /\ r.total_workouts = 0
            /\ r.total_duration_minutes = 0
            /\ r.total_energy_burned = 0
            /\ r.total_distance = 0
            /\ r.avg_workouts_per_week = 0
            /\ r.avg_workouts_per_month = 0
            /\ r.avg_duration_per_workout = 0
       ELSE IF op = "personal_records"
       THEN /\ r.longest_workout.duration = 0
            /\ r.most_active_month.count = 0
            /\ r.current_streak = 0
            /\ r.longest_streak = 0
       ELSE IF op = "workout_details"
       THEN r.data = <<>> /\ r.total = 0
       ELSE r = <<>>

\* The files the request r reads do not exist: processed_data itself, the
\* table of the category of a series request, or the aggregate of a special
\* category.
DataMissing(r) ==
    \/ ~processed_dir
    \/ r.op = "data" /\ r.activity \notin DOMAIN tables \cup {"Total"}
    \/ r.op \in {"sleep", "steps", "heart_rate"} /\ r.op \notin DOMAIN signals

\* C15: every query whose processed directory, table or aggregate file does
\* not exist returns an explicitly empty result and never an error.
C15_MissingDataIsEmpty ==
    (req.op \in QueryOps /\ DataMissing(req)) => ExplicitlyEmpty(req.op, resp)

\* The same for every query but the workout detail listing.
C15_MissingDataIsEmptyButDetails ==
    (req.op \in QueryOps \ {"workout_details"} /\ DataMissing(req))
        => ExplicitlyEmpty(req.op, resp)

(***************************************************************************)
(* Sub-series per bucket: specification and properties                     *)
(***************************************************************************)
\* Workouts of two categories with durations and energies that are no
\* multiple of a tenth, two in one month, and one of another year.
GroupedWorkouts ==
    { Workout("Running", DateStr(2024, 1, 1, Morning), Dec(1026), Dec(10013), Blank, Blank, Num(5)),
      Workout("Running", DateStr(2024, 1, 2, Morning), Dec(2026), Num(50), Num(70), Num(3), Num(4)),
      Workout("CoreTraining", DateStr(2024, 1, 1, Evening), Dec(4526), Blank, Dec(20004), Blank, Blank),
      Workout("CoreTraining", DateStr(2024, 2, 1, Morning), Num(15), Num(60), Blank, Blank, Blank),
      Workout("Running", DateStr(2023, 12, 31, Evening), Num(30), Blank, Blank, Blank, Blank) }

\* One series query without date filter to a server just started over the
\* tables of one batch run.
InitGrouped == \E doc \in SeqsUpTo(GroupedWorkouts, MaxRows) : Processed(doc, FirstDay)

NextGrouped ==
    /\ FirstRequest
    /\ \E a \in Activities, g \in Granularities, grp \in BOOLEAN :
          Data(a, EmptyStr, EmptyStr, g, grp)

SpecGrouped == InitGrouped /\ [][NextGrouped]_vars

\* The bucket the rows of table act go to under request r.
BucketOf(r, act) == IF r.group_by_category THEN categorize_activity(act) ELSE act

\* The rows, as <<table, index>>, that request r puts in bucket b at label l
\* of year y: those with a date inside the requested range.
RowsAt(r, b, y, l) ==
    {p \in UNION {{<<act, i>> : i \in DOMAIN tables[act]} :
                     act \in (IF r.activity = "Total" THEN DOMAIN tables
                              ELSE {r.activity} \cap DOMAIN tables)} :
        /\ BucketOf(r, p[1]) = b
        /\ parse_date(tables[p[1]][p[2]].startDate) # None
        /\ InRange(parse_date(tables[p[1]][p[2]].startDate),
                   parse_date(r.start_date), parse_date(r.end_date))
        /\ parse_date(tables[p[1]][p[2]].startDate)[1] = y
        /\ LabelOf(parse_date(tables[p[1]][p[2]].startDate), r.granularity) = l}

RECURSIVE SumAt(_, _)
SumAt(P, metric) ==
    IF P = {} THEN 0
    ELSE LET p == CHOOSE x \in P : TRUE
         IN  RowValue(tables[p[1]][p[2]], metric) + SumAt(P \ {p}, metric)

\* The buckets with a row in year y of the entry, under request r.
BucketsPresent(r, entry) ==
    {b \in {BucketOf(r, act) : act \in DOMAIN tables} :
        \E l \in Range(entry.labels) : RowsAt(r, b, entry.year, l) # {}}

RECURSIVE SumOfSet(_, _, _)
SumOfSet(B, subseries, i) ==
    IF B = {} THEN 0
    ELSE LET b == CHOOSE x \in B : TRUE
         IN  subseries[b][i] + SumOfSet(B \ {b}, subseries, i)

\* Every dataset of the entry has one sub-series per bucket present in the
\* year and a Total sub-series.
SubSeriesPerBucket(r, entry) ==
    \A f \in MetricNames : DOMAIN entry.datasets[f] = BucketsPresent(r, entry) \cup {"Total"}

\* The tenth t is a tenth nearest to the quotient of h thousandths by n.
NearestTenthOfQuotient(t, h, n) == 100 * t * n - h \in (-50 * n)..(50 * n)

\* Total is the sum of the buckets' sums rounded to one decimal, and a
\* bucket's average its own sum by its own count rounded to one decimal.
TotalsRounded(r, entry) ==
    LET B == BucketsPresent(r, entry)
        Rows(b, i) == RowsAt(r, b, entry.year, entry.labels[i])
    IN  \A i \in DOMAIN entry.labels :
            /\ entry.datasets.count["Total"][i] =
                  10 * Cardinality(UNION {Rows(b, i) : b \in B})
            /\ \A f \in {"duration", "energy", "distance"} :
                  NearestTenth(entry.datasets[f]["Total"][i],
                               SumAt(UNION {Rows(b, i) : b \in B}, f))
            /\ \A b \in B :
                  /\ IF Rows(b, i) = {} THEN entry.datasets.avg_duration[b][i] = 0
                     ELSE NearestTenthOfQuotient(entry.datasets.avg_duration[b][i],
                                                 SumAt(Rows(b, i), "duration"),
                                                 Cardinality(Rows(b, i)))
                  /\ IF Rows(b, i) = {} THEN entry.datasets.avg_energy[b][i] = 0
                     ELSE NearestTenthOfQuotient(entry.datasets.avg_energy[b][i],
                                                 SumAt(Rows(b, i), "energy"),
                                                 Cardinality(Rows(b, i)))

\* Total is the sum of the buckets' sub-series values, and a bucket's
\* average times its count is its sum.
TotalsExact(r, entry) ==
    LET B == BucketsPresent(r, entry)
    IN  \A i \in DOMAIN entry.labels :
            /\ \A f \in {"count", "duration", "energy", "distance"} :
                  entry.datasets[f]["Total"][i] = SumOfSet(B, entry.datasets[f], i)
            /\ \A b \in B :
                  /\ entry.datasets.avg_duration[b][i] * entry.datasets.count[b][i]
                        = 10 * entry.datasets.duration[b][i]
                  /\ entry.datasets.avg_energy[b][i] * entry.datasets.count[b][i]
                        = 10 * entry.datasets.energy[b][i]

\* The request is a series query for Total or with categorization.
GroupedSeriesRequest == req.op = "data" /\ req.activity # "" /\ GroupedRequest(req)

\* C16 as stated: for a series query for Total or with categorization, every
\* year entry carries for each of the six datasets one sub-series per bucket
\* present in that year plus Total; at every label the Total count, duration,
\* energy and distance is the sum over the buckets at that label, and each
\* bucket's average is its own sum divided by its own count, 0 with count 0.
C16_TotalsExact ==
    GroupedSeriesRequest =>
        \A k \in DOMAIN resp :
            SubSeriesPerBucket(req, resp[k]) /\ TotalsExact(req, resp[k])

\* C16 amended: the same sub-series; at every label the Total is the sum of
\* the buckets' unrounded sums, rounded to one decimal, and each bucket's
\* average is its own unrounded sum divided by its own count, rounded to one
\* decimal, 0 with count 0.
C16_TotalsRounded ==
    GroupedSeriesRequest =>
        \A k \in DOMAIN resp :
            SubSeriesPerBucket(req, resp[k]) /\ TotalsRounded(req, resp[k])

\* A categorized response with two buckets in one month whose rounded
\* durations do not add up to the Total.
C16_Witness ==
    /\ GroupedSeriesRequest
    /\ req.activity = "Total"
    /\ req.group_by_category
    /\ \E k \in DOMAIN resp :
          /\ DOMAIN resp[k].datasets.duration = {"Cardio", "Strength Training", "Total"}
          /\ \E i \in DOMAIN resp[k].labels :
                resp[k].datasets.duration["Total"][i] #
                    resp[k].datasets.duration["Cardio"][i]
                        + resp[k].datasets.duration["Strength Training"][i]

(***************************************************************************)
(* Personal bests: specification and properties                            *)
(***************************************************************************)
\* Workouts whose durations differ by less than a hundredth of a minute,
\* two of the same duration, and two of another month.
BestWorkouts ==
    { Workout("Running", DateStr(2024, 1, 1, Morning), Milli(20264), Blank, Blank, Blank, Blank),
      Workout("Running", DateStr(2024, 1, 2, Morning), Milli(20262), Blank, Blank, Blank, Blank),
      Workout("CoreTraining", DateStr(2024, 1, 2, Evening), Milli(20264), Blank, Blank, Blank, Blank),
      Workout("Running", DateStr(2024, 2, 1, Morning), Num(30), Blank, Blank, Blank, Blank),
      Workout("CoreTraining", DateStr(2024, 2, 1, Evening), Num(30), Blank, Blank, Blank, Blank) }

\* One personal-records query to a server just started over the tables of
\* one batch run.
InitBests == \E doc \in SeqsUpTo(BestWorkouts, MaxRows) : Processed(doc, FirstDay)

NextBests ==
    /\ FirstRequest
    /\ \E s \in RecordDateArgs, e \in RecordDateArgs : GetPersonalRecords(s, e)

SpecBests == InitBests /\ [][NextBests]_vars

\* The rows inside the range of request r, in scan order, each with the name
\* of its table.
FilteredInScanOrder(r) ==
    SelectSeq(ScanAll(tables, ListDir(tables)), LAMBDA e : InRequestedRange(e.row, r))

\* The first of the filtered workouts that no filtered workout outlasts.
FirstLongest(filtered) ==
    filtered[Min({i \in DOMAIN filtered :
                     \A j \in DOMAIN filtered :
                         CellNumber(filtered[j].row.duration)
                             <= CellNumber(filtered[i].row.duration)})]

\* The number of filtered workouts in month m of year y.
CountInMonth(filtered, y, m) ==
    Cardinality({i \in DOMAIN filtered :
                    filtered[i].row.startDate.y = y /\ filtered[i].row.startDate.m = m})

\* most_active_month names a month with the largest number of filtered
\* workouts, and that number.
MostActiveMonthIsMaximal(filtered, most) ==
    IF filtered = <<>> THEN most.count = 0
    ELSE /\ \E m \in DOMAIN month_order :
               /\ most.month = month_order[m]
               /\ most.count = CountInMonth(filtered, most.year, m)
         /\ \A i \in DOMAIN filtered :
               CountInMonth(filtered, filtered[i].row.startDate.y,
                            filtered[i].row.startDate.m) <= most.count

\* longest_workout is the first of the longest filtered workouts, its
\* duration given to two decimals.
LongestWorkoutIsFirstLongest(filtered, longest) ==
    (filtered # <<>> /\ CellNumber(FirstLongest(filtered).row.duration) > 0) =>
        /\ longest.activity = FirstLongest(filtered).activity
        /\ longest.date = First10(FirstLongest(filtered).row.startDate)
        /\ longest.duration = RoundDiv2(CellNumber(FirstLongest(filtered).row.duration), 1000)

\* C17: within the filtered range and in scan order, longest_workout is the
\* workout with the maximum duration among the filtered rows, the first one
\* encountered on equal durations, and most_active_month is a month and year
\* whose filtered workout count is the maximum over all months.
C17_PersonalBests ==
    req.op = "personal_records" =>
        /\ LongestWorkoutIsFirstLongest(FilteredInScanOrder(req), resp.longest_workout)
        /\ MostActiveMonthIsMaximal(FilteredInScanOrder(req), resp.most_active_month)

\* The same for most_active_month alone.
C17_MostActiveMonth ==
    req.op = "personal_records" =>
        MostActiveMonthIsMaximal(FilteredInScanOrder(req), resp.most_active_month)

(***************************************************************************)
(* categorize_activity: specification and properties                       *)
(***************************************************************************)
MaxParts == 2

\* The parts the names of the specification are put together from.
NameParts ==
    { <<"C", "o", "r", "e">>,
      <<"R", "u", "n", "n", "i", "n", "g">>,
      <<"Y", "o", "g", "a">>,
      <<"M", "i", "n", "d">>,
      <<"A", "n", "d", "B", "o", "d", "y">>,
      <<"S", "t", "r", "e", "n", "g", "t", "h">>,
      <<"U", "p", "p", "e", "r", "B", "o", "d", "y">>,
      <<"W", "e", "i", "g", "h", "t">>,
      <<"R", "e", "s", "i", "s", "t", "a", "n", "c", "e">> }

RECURSIVE Joined(_)
Joined(parts) == IF parts = <<>> THEN <<>> ELSE Head(parts) \o Joined(Tail(parts))

\* The names: the empty name, which is also the missing one, and every name
\* made of at most MaxParts parts.
ActivityNames == {Joined(parts) : parts \in SeqsUpTo(NameParts, MaxParts)}

\* categorize_activity is about to be applied to a name.
InitCategorize ==
    /\ export = [exists |-> FALSE, workouts |-> <<>>, records |-> <<>>,
                   malformed |-> FALSE]
    /\ tables = NoTables
    /\ aggregated = NoTables
    /\ signals = NoSignals
    /\ processed_dir = FALSE
    /\ DATA_CACHE = NoCache
    /\ today = FirstDay
    /\ \E name \in ActivityNames : req = [NoRequest EXCEPT !.activity = name]
    /\ resp = <<>>
    /\ threads = NoThreads
    /\ batch = NoBatch

NextCategorize == \E order \in KeywordOrders : Categorize(order)

SpecCategorize == InitCategorize /\ [][NextCategorize]_vars

\* The characters a and b are the same letter, in upper or lower case.
SameLetter(a, b) ==
    \/ a = b
    \/ \E j \in DOMAIN UpperCase :
          {a, b} = {UpperCase[j], LowerCase[j]}

\* The name holds the lower-case keyword kw somewhere, the case of the
\* name's letters left aside.
HoldsKeyword(name, kw) ==
    \E i \in 0..(Len(name) - Len(kw)) :
        \A j \in DOMAIN kw : SameLetter(name[i + j], kw[j])

\* C18: categorize_activity gives 'Strength Training' exactly for the names
\* whose lower-cased spelling contains one of strength, core, bodyweight,
\* yoga, mindandbody, resistance, and 'Cardio' for every other name, the
\* empty or missing one included, in whatever order the keywords are taken;
\* so CoreTraining is Strength Training and Running is Cardio.
C18_CategorizeActivity ==
    /\ req.op = "categorize_activity" =>
          /\ resp \in {"Strength Training", "Cardio"}
          /\ resp = "Strength Training" <=>
                \E kw \in { <<"s", "t", "r", "e", "n", "g", "t", "h">>,
                            <<"c", "o", "r", "e">>,
                            <<"b", "o", "d", "y", "w", "e", "i", "g", "h", "t">>,
                            <<"y", "o", "g", "a">>,
                            <<"m", "i", "n", "d", "a", "n", "d", "b", "o", "d", "y">>,
                            <<"r", "e", "s", "i", "s", "t", "a", "n", "c", "e">> } : HoldsKeyword(req.activity, kw)
          /\ req.activity = <<>> => resp = "Cardio"
    /\ categorize_activity("CoreTraining") = "Strength Training"
    /\ categorize_activity("Running") = "Cardio"
    /\ categorize_activity("") = "Cardio"

\* A name with a keyword that begins in one part and ends in the next, and
\* not at the start of the name.
C18_Witness ==
    /\ req.op = "categorize_activity"
    /\ req.activity = <<"U", "p", "p", "e", "r", "B", "o", "d", "y", "W", "e", "i", "g", "h", "t">>
    /\ resp = "Strength Training"

(***************************************************************************)
(* The flattened table: specification and properties                       *)
(***************************************************************************)
\* An extracted record with the keys `keys`, each with the value v.
ExtractedRecord(keys, v) == [k \in keys |-> v]

\* Extracted records of one category with different sets of keys.
ExtractedRecords ==
    { ExtractedRecord({<<"s", "t", "a", "r", "t", "D", "a", "t", "e">>, <<"e", "n", "d", "D", "a", "t", "e">>, <<"d", "u", "r", "a", "t", "i", "o", "n">>, <<"s", "o", "u", "r", "c", "e", "N", "a", "m", "e">>, <<"w", "o", "r", "k", "o", "u", "t", "A", "c", "t", "i", "v", "i", "t", "y", "T", "y", "p", "e">>},
                      "r1"),
      ExtractedRecord({<<"d", "u", "r", "a", "t", "i", "o", "n">>, <<"s", "t", "a", "r", "t", "D", "a", "t", "e">>, <<"t", "o", "t", "a", "l", "D", "i", "s", "t", "a", "n", "c", "e">>, <<"d", "e", "v", "i", "c", "e">>},
                      "r2"),
      ExtractedRecord({<<"s", "t", "a", "r", "t", "D", "a", "t", "e">>, <<"m", "e", "t", "a", "_", "H", "K", "T", "i", "m", "e", "Z", "o", "n", "e">>, <<"c", "r", "e", "a", "t", "i", "o", "n", "D", "a", "t", "e">>},
                      "r3"),
      ExtractedRecord({<<"s", "o", "u", "r", "c", "e", "N", "a", "m", "e">>, <<"s", "t", "a", "t", "_", "A", "c", "t", "i", "v", "e", "E", "n", "e", "r", "g", "y", "B", "u", "r", "n", "e", "d", "_", "s", "u", "m">>, <<"m", "e", "t", "a", "_", "e", "l", "e", "v", "a", "t", "i", "o", "n">>, <<"t", "o", "t", "a", "l", "E", "n", "e", "r", "g", "y", "B", "u", "r", "n", "e", "d">>},
                      "r4"),
      ExtractedRecord({<<"c", "r", "e", "a", "t", "i", "o", "n", "D", "a", "t", "e">>},
                      "r5"),
      ExtractedRecord({<<"s", "t", "a", "r", "t", "D", "a", "t", "e">>, <<"e", "n", "d", "D", "a", "t", "e">>, <<"d", "u", "r", "a", "t", "i", "o", "n">>, <<"t", "o", "t", "a", "l", "E", "n", "e", "r", "g", "y", "B", "u", "r", "n", "e", "d">>, <<"t", "o", "t", "a", "l", "D", "i", "s", "t", "a", "n", "c", "e">>, <<"s", "o", "u", "r", "c", "e", "N", "a", "m", "e">>},
                      "r6"),
      ExtractedRecord({<<"d", "e", "v", "i", "c", "e">>, <<"d", "u", "r", "a", "t", "i", "o", "n", "U", "n", "i", "t">>, <<"e", "n", "d", "D", "a", "t", "e">>},
                      "r7") }

\* Pass 2 is about to flatten the records of one category; a category has
\* a workouts.jsonl only if it has a record.
InitFlatten ==
    /\ \E records \in SeqsUpTo(ExtractedRecords, MaxRows) \ {<<>>} :
          export = [exists |-> TRUE, workouts |-> records, records |-> <<>>,
                   malformed |-> FALSE]
    /\ tables = NoTables
    /\ aggregated = NoTables
    /\ signals = NoSignals
    /\ processed_dir = TRUE
    /\ DATA_CACHE = NoCache
    /\ today = FirstDay
    /\ req = NoRequest
    /\ resp = <<>>
    /\ threads = NoThreads
    /\ batch = NoBatch

NextFlatten == Flatten

SpecFlatten == InitFlatten /\ [][NextFlatten]_vars

\* a comes before b in lexicographic order: a is a proper prefix of b, or at
\* the first place they differ a has the smaller character.
LexBefore(a, b) ==
    \/ Len(a) < Len(b) /\ SubSeq(b, 1, Len(a)) = a
    \/ \E i \in DOMAIN a \cap DOMAIN b :
          /\ SubSeq(a, 1, i - 1) = SubSeq(b, 1, i - 1)
          /\ CodePoint(a[i]) < CodePoint(b[i])

\* The place of a standard column among the standard columns.
StandardPlace(k) == CHOOSE i \in DOMAIN standard_keys : standard_keys[i] = k

\* The header is the standard columns observed, in their order, followed by
\* the other observed keys in lexicographic order, no key twice.
HeaderWellFormed(header, records) ==
    /\ Range(header) = UNION {DOMAIN records[n] : n \in DOMAIN records}
    /\ \A i, j \in DOMAIN header : i < j =>
          /\ header[i] # header[j]
          /\ IF header[j] \in Range(standard_keys)
             THEN /\ header[i] \in Range(standard_keys)
                  /\ StandardPlace(header[i]) < StandardPlace(header[j])
             ELSE header[i] \in Range(standard_keys) \/ LexBefore(header[i], header[j])

\* Every record is one row, in the order of the records: its values in the
\* order of the header, the empty value for a key it lacks.
RowsWellFormed(header, rows, records) ==
    /\ Len(rows) = Len(records)
    /\ \A n \in DOMAIN rows :
          /\ DOMAIN rows[n] = DOMAIN header
          /\ \A i \in DOMAIN header :
                rows[n][i] = (IF header[i] \in DOMAIN records[n]
                              THEN records[n][header[i]] ELSE "")

\* C19: the header of the flattened table of a category is the standard
\* columns that occur (startDate, endDate, duration, totalEnergyBurned,
\* totalDistance, sourceName, in that order) followed by all other observed
\* keys in lexicographic order with no key repeated; every record is written
\* as exactly one row in that column order, with an empty value for each key
\* it lacks, and no record is dropped.
C19_FlattenedTable ==
    req.op = "flatten" =>
        /\ HeaderWellFormed(resp.final_headers, export.workouts)
        /\ RowsWellFormed(resp.final_headers, resp.rows, export.workouts)

\* Two records with different keys: standard columns out of their sorted
\* order, an upper-case letter sorted before a lower-case one, and a row
\* with empty values.
C19_Witness ==
    /\ req.op = "flatten"
    /\ Len(resp.rows) = 2
    /\ resp.final_headers =
          << <<"s", "t", "a", "r", "t", "D", "a", "t", "e">>,
             <<"t", "o", "t", "a", "l", "E", "n", "e", "r", "g", "y", "B", "u", "r", "n", "e", "d">>,
             <<"s", "o", "u", "r", "c", "e", "N", "a", "m", "e">>,
             <<"c", "r", "e", "a", "t", "i", "o", "n", "D", "a", "t", "e">>,
             <<"m", "e", "t", "a", "_", "H", "K", "T", "i", "m", "e", "Z", "o", "n", "e">>,
             <<"m", "e", "t", "a", "_", "e", "l", "e", "v", "a", "t", "i", "o", "n">>,
             <<"s", "t", "a", "t", "_", "A", "c", "t", "i", "v", "e", "E", "n", "e", "r", "g", "y", "B", "u", "r", "n", "e", "d", "_", "s", "u", "m">> >>
    /\ \E n \in DOMAIN resp.rows : resp.rows[n] = <<"r3", "", "", "r3", "r3", "", "">>

(***************************************************************************)
(* The batch step run again: specification and properties                  *)
(***************************************************************************)
\* The workouts of the documents of the life cycle.
LifeWorkouts == UNION {Range(d[1]) : d \in LifeDocs}

\* The Record elements of the documents of the batch specification: none,
\* a step count, and a heart-rate reading with a sleep phase.
BatchRecords ==
    { <<>>,
      <<Record(StepType, DateStr(2024, 1, 1, Morning), Num(4000), 0)>>,
      <<Record(HeartRateType, DateStr(2024, 1, 2, Morning), Num(60), 0),
        Record(SleepType, DateStr(2024, 1, 1, Evening), Cell("bad", 1), 420)>> }

\* A document is in place and the batch step runs, once and again, on a
\* machine where it never ran or where it ran on an earlier document.
InitBatch ==
    /\ \E doc \in SeqsUpTo(LifeWorkouts, MaxRows), records \in BatchRecords :
          export = [exists |-> TRUE, workouts |-> doc, records |-> records,
                   malformed |-> FALSE]
    /\ \/ /\ tables = NoTables
          /\ aggregated = NoTables
          /\ signals = NoSignals
          /\ processed_dir = FALSE
       \/ \E old \in LifeDocs :
             /\ tables = TablesAfter(NoTables, old[1])
             /\ aggregated = AggregatedAfter(NoTables, old[1])
             /\ signals = SignalsAfter(old[2])
             /\ processed_dir = TRUE
    /\ DATA_CACHE = NoCache
    /\ today = FirstDay
    /\ req = NoRequest
    /\ resp = <<>>
    /\ threads = NoThreads
    /\ batch = NoBatch

NextBatch == ProcessData

SpecBatch == InitBatch /\ [][NextBatch]_vars

\* C20: after a run of the batch step, a second run on the unchanged
\* document leaves every category's table and aggregated.json, those of the
\* special categories included, with the content the first run gave them.
C20_BatchIdempotent ==
    (req.op = "process_data" /\ export.exists) =>
        /\ TablesAfter(tables, export.workouts) = tables
        /\ AggregatedAfter(aggregated, export.workouts) = aggregated
        /\ SignalsAfter(export.records) = signals

\* After a run over a document with two Running workouts and a step count,
\* on a machine that holds a CoreTraining table of an earlier document.
C20_Witness ==
    /\ req.op = "process_data"
    /\ DOMAIN tables = {"CoreTraining", "Running"}
    /\ Len(tables["Running"]) = 2
    /\ TypesOf(export.workouts) = {"Running"}
    /\ signals["steps"].csv # <<>>
    /\ aggregated["Running"] # <<>>

(***************************************************************************)
(* A document the parser fails on: specification and properties            *)
(***************************************************************************)
\* The batch step runs on a document, whole or malformed after the elements
\* the parser yields, on a machine where it never ran or where it ran on an
\* earlier document.
InitParse ==
    /\ \E doc \in SeqsUpTo(LifeWorkouts, MaxRows), records \in BatchRecords,
          malformed \in BOOLEAN :
          export = [exists |-> TRUE, workouts |-> doc, records |-> records,
                    malformed |-> malformed]
    /\ \/ /\ tables = NoTables
          /\ aggregated = NoTables
          /\ signals = NoSignals
          /\ processed_dir = FALSE
       \/ \E old \in LifeDocs :
             /\ tables = TablesAfter(NoTables, old[1])
             /\ aggregated = AggregatedAfter(NoTables, old[1])
             /\ signals = SignalsAfter(old[2])
             /\ processed_dir = TRUE
    /\ DATA_CACHE = NoCache
    /\ today = FirstDay
    /\ req = NoRequest
    /\ resp = <<>>
    /\ threads = NoThreads
    /\ batch = NoBatch

NextParse == ProcessData

SpecParse == InitParse /\ [][NextParse]_vars

\* C21: a batch run on a document whose parse fails writes no table, no
\* aggregate and no special category, and its outcome is not that of a
\* normal return.
C21_ParseFailureIsFatal ==
    [][(export.malformed /\ req'.op = "process_data") =>
          /\ tables' = tables
          /\ aggregated' = aggregated
          /\ signals' = signals
          /\ resp' # <<>>]_vars

(***************************************************************************)
(* The batch step without a document: specification and properties         *)
(***************************************************************************)
\* Documents come and go and the batch step runs, with or without one.
NextMissing ==
    \/ \E doc \in ConcurrentDocs, records \in BatchRecords : NewExport(doc, records)
    \/ RemoveExport
    \/ ProcessData

SpecMissing == Init /\ [][NextMissing]_vars

\* C22: a batch run that finds no export.xml leaves processed_data as it
\* is, absent or with every table, aggregate and special category of the
\* earlier runs.
C22_MissingDocumentWritesNothing ==
    [][(~export.exists /\ req'.op = "process_data") =>
          UNCHANGED <<tables, aggregated, signals, processed_dir>>]_vars

\* A run found no export.xml on a machine that holds the tables of an
\* earlier run.
C22_Witness ==
    /\ ~export.exists
    /\ req.op = "process_data"
    /\ processed_dir
    /\ "Running" \in DOMAIN tables
    /\ "Running" \in DOMAIN aggregated
    /\ signals["steps"].csv # <<>>

(***************************************************************************)
(* The batch folds row by row: specification and properties                *)
(***************************************************************************)
\* The Record elements of the fold specification: the heart-rate readings,
\* two step counts of one month, one of them negative, and the sleep
\* phases of one month, the last with its phase in capitals.
FoldRecords ==
    HeartRateRecords \cup
    { Record(StepType, DateStr(2024, 1, 1, Morning), Num(4000), 0),
      Record(StepType, DateStr(2024, 1, 2, Morning), Num(-3), 0),
      Record(SleepType, DateStr(2024, 1, 1, Evening), Cell("bad", 1), 420),
      Record(SleepType, DateStr(2024, 1, 2, Evening), Cell("bad", 2), 480),
      Record(SleepType, DateStr(2024, 1, 3, Evening), Cell("bad", 3), 60),
      Record(SleepType, DateStr(2024, 1, 4, Evening), Cell("bad", 5), 300) }

\* The batch step is about to scan the csv of one category, written from a
\* document of up to MaxRows elements of its kind.
InitFold ==
    /\ \/ \E doc \in SeqsUpTo(SeriesWorkouts, MaxRows) : resp = Scan("workouts", doc)
       \/ \E records \in SeqsUpTo(FoldRecords, MaxRows) :
             \/ resp = Scan("sleep", SignalRows(records, SleepType))
             \/ resp = Scan("steps", SignalRows(records, StepType))
             \/ resp = Scan("heart_rate", SignalRows(records, HeartRateType))
    /\ export = [exists |-> FALSE, workouts |-> <<>>, records |-> <<>>,
                   malformed |-> FALSE]
    /\ tables = NoTables
    /\ aggregated = NoTables
    /\ signals = NoSignals
    /\ processed_dir = FALSE
    /\ DATA_CACHE = NoCache
    /\ today = FirstDay
    /\ req = NoRequest
    /\ threads = NoThreads
    /\ batch = NoBatch

NextFold ==
    \/ AggregateWorkoutRow
    \/ AggregateSleepRow
    \/ AggregateStepsRow
    \/ AggregateHeartRateRow

SpecFold == InitFold /\ [][NextFold]_vars

\* The accumulator of a bucket no row was folded into, as its defaultdict
\* makes it.
FreshBucket(category) ==
    CASE category = "workouts" -> ZeroStats
      [] category = "sleep" -> ZeroSleep
      [] category = "steps" -> [total_steps |-> 0, count |-> 0]
      [] category = "heart_rate" -> [sum |-> 0, count |-> 0, min |-> <<>>, max |-> 0]

BucketAt(scan, key) == IF key \in DOMAIN scan.acc THEN scan.acc[key] ELSE FreshBucket(scan.category)

\* a <= b for two values of min, the empty tuple being infinity.
MinLeq(a, b) == b = <<>> \/ (a # <<>> /\ a[1] <= b[1])

\* a <= b for two values of the accumulator named f.
AccLeq(f, a, b) == IF f = "min" THEN MinLeq(a, b) ELSE a <= b

\* The numbers of the row are zero or more.
NonNegativeRow(row) ==
    \A f \in DOMAIN row \ {"type", "startDate"} : row[f].k \in {"num", "unit"} => row[f].n >= 0

CountsAndMax == {"count", "max"}

\* C23 as stated: after each folded row every accumulator of every bucket,
\* the heart-rate minimum included, is greater than or equal to its value
\* before the row.
C23_NoAccumulatorDecreases ==
    [][\A key \in DOMAIN resp'.acc :
          \A f \in DOMAIN BucketAt(resp', key) :
              AccLeq(f, BucketAt(resp, key)[f], BucketAt(resp', key)[f])]_vars

\* C23 amended: after each folded row every bucket is kept, every count and
\* the heart-rate maximum are greater than or equal to their value before
\* the row, the heart-rate minimum is less than or equal to its value
\* before, and every sum is greater than or equal to its value before when
\* the numbers of the row are zero or more.
C23_Accumulation ==
    [][/\ DOMAIN resp.acc \subseteq DOMAIN resp'.acc
       /\ \A key \in DOMAIN resp'.acc :
             \A f \in DOMAIN BucketAt(resp', key) :
                 IF f = "min"
                 THEN MinLeq(BucketAt(resp', key)[f], BucketAt(resp, key)[f])
                 ELSE IF f \in CountsAndMax \/ NonNegativeRow(Head(resp.rows))
                 THEN BucketAt(resp, key)[f] <= BucketAt(resp', key)[f]
                 ELSE TRUE]_vars

\* The readings 75 and 60 of January were folded: the minimum went from
\* infinity to 75 and from 75 to 60.
C23_Witness ==
    /\ resp.category = "heart_rate"
    /\ resp.rows = <<>>
    /\ <<2024, "January">> \in DOMAIN resp.acc
    /\ resp.acc[<<2024, "January">>] =
          [sum |-> 135000, count |-> 2, min |-> <<60000>>, max |-> 75000]

(***************************************************************************)
(* The server reads only                                                   *)
(***************************************************************************)
\* C24: a step that is not a run of the batch step leaves every table,
\* aggregate and special category and the presence of processed_data as
\* they are; of what the server serves from, a request changes at most
\* DATA_CACHE.
C24_QueriesReadOnly ==
    [][req'.op # "process_data" =>
          UNCHANGED <<tables, aggregated, signals, processed_dir>>]_vars

\* The page was served after a series request filled DATA_CACHE over the
\* tables of a batch run.
C24_Witness ==
    /\ req.op = "index"
    /\ resp = "index.html"
    /\ "Running" \in DOMAIN DATA_CACHE
    /\ "Running" \in DOMAIN tables

\* The batch aggregation cannot fold the row: its date does not parse, or
\* its duration, energy or distance is no number.
UnfoldableRow(row) ==
    \/ row.startDate = EmptyStr
    \/ Strptime(First10(row.startDate)) = None
    \/ FloatOrZero(row.duration) = Failed
    \/ FloatOrZero(Or(row.stat_ActiveEnergyBurned_sum, row.totalEnergyBurned)) = Failed
    \/ FloatOrZero(Or(row.stat_DistanceWalkingRunning_sum, row.totalDistance)) = Failed

\* C25: a row of workouts.csv the batch aggregation cannot fold leaves
\* aggregated_data as it is, count included, and the scan goes on with the
\* next row.
C25_SkippedRowLeavesAggregate ==
    [][(resp.category = "workouts" /\ UnfoldableRow(Head(resp.rows))) =>
          (resp'.acc = resp.acc /\ resp'.rows = Tail(resp.rows))]_vars

\* The accumulator of the phase a sleep value names in whatever letter
\* case, asleep before in bed before awake; "" when it names none.
PhaseOf(value) ==
    LET lower_value == Lower(value)
    IN  IF IsIn(Lower(Asleep), lower_value) THEN "total_sleep_minutes"
        ELSE IF IsIn(Lower(InBed), lower_value) THEN "in_bed_minutes"
        ELSE IF IsIn(Lower(Awake), lower_value) THEN "awake_minutes"
        ELSE ""

\* The accumulators of the sleep bucket key, zero when it is absent.
SleepAt(acc, key) == IF key \in DOMAIN acc THEN acc[key] ELSE ZeroSleep

\* C26: a row of sleep.csv whose value names a phase, in whatever letter
\* case, and whose date parses has its duration added to the accumulator of
\* that phase in the bucket of its month, and to nothing else.
C26_TolerantSleepPhase ==
    [][(/\ resp.category = "sleep"
        /\ Head(resp.rows).value.k = "bad"
        /\ Head(resp.rows).value.n \in DOMAIN SleepValues
        /\ PhaseOf(SleepValues[Head(resp.rows).value.n]) # ""
        /\ Strptime(First10(Head(resp.rows).startDate)) # None) =>
          LET row == Head(resp.rows)
              dt == Strptime(First10(row.startDate))
              key == <<dt[1], MonthName(dt)>>
              phase == PhaseOf(SleepValues[row.value.n])
          IN  resp'.acc = Put(resp.acc, key,
                              [SleepAt(resp.acc, key) EXCEPT ![phase] = @ + row.duration.n])]_vars

(***************************************************************************)
(* Series requests the result cache does not serve                         *)
(***************************************************************************)
\* C27: a series request with a start or end date, a granularity other than
\* monthly or grouping by category leaves DATA_CACHE as it is and is not
\* served from it: the response is the series computed from the tables.
C27_FilteredBypassesCache ==
    [][(/\ req'.op = "data"
        /\ req'.activity # ""
        /\ ~PlainSeriesRequest(req')
        /\ export' = export) =>
          /\ DATA_CACHE' = DATA_CACHE
          /\ ~req'.from_cache
          /\ resp' = ComputeSeries(IF processed_dir THEN tables ELSE NoTables,
                                   req'.activity, req'.start_date, req'.end_date,
                                   req'.granularity, req'.group_by_category)]_vars

\* A daily request was answered with a series by day while the cache held
\* the monthly series of its category.
C27_Witness ==
    /\ req.op = "data"
    /\ req.granularity = "daily"
    /\ req.activity \in DOMAIN DATA_CACHE
    /\ DATA_CACHE[req.activity] # <<>>
    /\ resp # <<>>
    /\ resp[1].labels[1] = 20240101

(***************************************************************************)
(* The categories a batch run leaves                                       *)
(***************************************************************************)
\* C28: after a batch run the categories that hold a table and an aggregate
\* are the activity types of the document the run processed, and list
\* categories names no other.
C28_OnlyCurrentCategories ==
    (req.op = "process_data" /\ export.exists) =>
        /\ DOMAIN tables = TypesOf(export.workouts)
        /\ DOMAIN aggregated = TypesOf(export.workouts)
        /\ Range(GetActivitiesResult(processed_dir, tables)) = TypesOf(export.workouts)

(***************************************************************************)
(* Series requests while the batch step runs: specification and properties *)
(***************************************************************************)
\* A server just started, and a batch step about to run on a document, on a
\* machine where it never ran or where it ran on an earlier document.
InitInterleaved ==
    /\ \E doc \in ConcurrentDocs :
          export = [exists |-> TRUE, workouts |-> doc, records |-> <<>>,
                    malformed |-> FALSE]
    /\ \/ /\ tables = NoTables
          /\ aggregated = NoTables
          /\ signals = NoSignals
          /\ processed_dir = FALSE
       \/ \E old \in LifeDocs :
             /\ tables = TablesAfter(NoTables, old[1])
             /\ aggregated = AggregatedAfter(NoTables, old[1])
             /\ signals = SignalsAfter(old[2])
             /\ processed_dir = TRUE
    /\ DATA_CACHE = NoCache
    /\ today = FirstDay
    /\ req = NoRequest
    /\ resp = <<>>
    /\ threads = NoThreads
    /\ batch = NoBatch

\* The batch step runs step by step and unfiltered, monthly, ungrouped
\* series requests are served between its steps and after its end.
NextInterleaved ==
    \/ BatchPass1
    \/ BatchOpenCsv
    \/ BatchWriteRow
    \/ BatchAggregateCsv
    \/ BatchSpecial
    \/ /\ batch.pc # "idle"
       /\ \E a \in {"Running", "Total"} : Data(a, EmptyStr, EmptyStr, "monthly", FALSE)

SpecInterleaved == InitInterleaved /\ [][NextInterleaved]_vars

\* The batch step done step by step writes what the batch step done at once
\* writes.
BatchStepsWriteAsProcessData ==
    batch.pc = "done" =>
        /\ TablesAfter(tables, export.workouts) = tables
        /\ AggregatedAfter(aggregated, export.workouts) = aggregated
        /\ SignalsAfter(export.records) = signals

\* C29: once the batch step has completed, the series the result cache
\* holds for a category, which every unfiltered monthly ungrouped request
\* for it returns, is the series of the tables as they are written.
C29_CacheHoldsCompleteTables ==
    batch.pc = "done" =>
        \A a \in DOMAIN DATA_CACHE :
            DATA_CACHE[a] = ComputeSeries(tables, a, EmptyStr, EmptyStr, "monthly", FALSE)

(***************************************************************************)
(* Summary statistics and the detail listing over the same bounds          *)
(***************************************************************************)
\* C30: for the same tables and the same start_date and end_date strings
\* the total_workouts of the summary statistics is the total of the detail
\* listing without an activity filter.
C30_StatisticsCountsListedWorkouts ==
    /\ req.op = "statistics" =>
          resp.total_workouts =
              GetWorkoutDetailsResult(processed_dir, tables, 1, 50, "",
                                      req.start_date, req.end_date).total
    /\ (req.op = "workout_details" /\ req.activity = "") =>
          resp.total =
              GetStatisticsResult(processed_dir, tables,
                                  req.start_date, req.end_date).total_workouts

=============================================================================
